---- MODULE Spec2Model ----
(***************************************************************************)
(* Band bulge-chasing kernels coreblas_zgbtype1cb / coreblas_zgbtype2cb.   *)
(*                                                                         *)
(* The band buffer A is modelled by its flat offsets; an element is 0      *)
(* (exactly zero) or 1 (possibly nonzero).  The reflector store VQ, TAUQ,  *)
(* VP, TAUP holds, per index, "init", "one" (the leading 1 of a vector),   *)
(* the copied band value, or the identity <<sweep, column>> of the         *)
(* reflector whose generation wrote it.  Each kernel body is translated    *)
(* statement by statement into a sequence of primitive operations          *)
(* (set1, copyzero, larfg, larfx) executed in program order.               *)
(***************************************************************************)
EXTENDS Integers, Sequences, FiniteSets, TLC

VARIABLES uplo, n, nb, lda, wantz, Vblksiz,
          A, VQ, TAUQ, VP, TAUP,
          last, chain, fault, slots, par, mir, tradd, tsqrt,
          qr, swp, pemv, lu, luat

vars == <<uplo, n, nb, lda, wantz, Vblksiz, A, VQ, TAUQ, VP, TAUP,
          last, chain, fault, slots, par, mir, tradd, tsqrt,
          qr, swp, pemv, lu, luat>>

(* ---------------- bounds of the model ---------------- *)
MaxN == 7
MaxNb == 3
MaxSweep == 2
MaxCallSweep == 1
MaxPad == 1
MaxVblksiz == 2
MaxParN == 5
MaxParNb == 2
MaxExN == 5
MaxExNb == 2
MaxDim == 2
MaxLd == 2

(* ---------------- program constants ---------------- *)
CoreBlasUpper == 121
CoreBlasLower == CoreBlasUpper + 1
CoreBlasSuccess == 0

imin(a, b) == IF a < b THEN a ELSE b
imax(a, b) == IF a > b THEN a ELSE b

(* ---------------- band addressing ---------------- *)
(* variant: the lower view is addressed like the upper view *)
AL_upper(m_, n_) == nb + lda * n_ + (m_ - n_ + nb)

AL(m_, n_) == nb + lda * n_ + (m_ - n_)
AU(m_, n_) == nb + lda * n_ + (m_ - n_ + nb)

(* element (m_, n_) of the active view *)
AV(m_, n_) == IF uplo = CoreBlasUpper THEN AU(m_, n_) ELSE AL(m_, n_)

(* ---------------- reflector addressing ---------------- *)
(* vectors-retained position function: one slot per (sweep, column), each  *)
(* slot LDV = nb + Vblksiz - 1 elements wide                               *)
findVTpos(n_, nb_, Vblksiz_, sweep_, st_) ==
    LET blkid == sweep_ * n_ + st_
        LDV   == nb_ + Vblksiz_ - 1
    IN  [vpos |-> blkid * LDV, taupos |-> blkid]

(* variant: the sweep parity is not reduced modulo 2 *)
VTpos_noparity(sweep, col) ==
    IF wantz = 0
    THEN [vpos   |-> (sweep + 1) * n + col,
          taupos |-> (sweep + 1) * n + col]
    ELSE findVTpos(n, nb, Vblksiz, sweep, col)

VTpos(sweep, col) ==
    IF wantz = 0
    THEN [vpos   |-> ((sweep + 1) % 2) * n + col,
          taupos |-> ((sweep + 1) % 2) * n + col]
    ELSE findVTpos(n, nb, Vblksiz, sweep, col)

(* number of elements of each of VQ, VP, TAUQ, TAUP *)
VSize ==
    IF wantz = 0 THEN 2 * n
    ELSE ((MaxSweep + 1) * n + 1) * (nb + Vblksiz - 1)

(* ---------------- primitive operations ---------------- *)
NoOp == [k |-> "none", arr |-> "VQ", idx |-> 0, cells |-> << >>, cj |-> FALSE,
         len |-> 0, alpha |-> 0, tau |-> "TAUQ", tauidx |-> 0,
         side |-> "L", m |-> 0, nn |-> 0, c |-> 0, ldc |-> 0,
         key |-> 0, sw |-> 0]

(* variant: the leading 1 lands one element further *)
OpSet1_next(arr, idx) == [NoOp EXCEPT !.k = "set1", !.arr = arr, !.idx = idx + 1]

(* *V(idx) = 1. *)
OpSet1(arr, idx) == [NoOp EXCEPT !.k = "set1", !.arr = arr, !.idx = idx]

(* V(idx+i-1) = [conj] cells[i]; cells[i] = 0  for i = 1..Len(cells) *)
OpCopyZero(arr, idx, cells, cj) ==
    [NoOp EXCEPT !.k = "copyzero", !.arr = arr, !.idx = idx,
                 !.cells = cells, !.cj = cj]

(* LAPACKE_zlarfg(len, alpha, V(idx), 1, TAU(tauidx)); cj: alpha goes      *)
(* through ctmp = conj(alpha) and is stored back afterwards                *)
OpLarfg(len, alpha, cj, arr, idx, tau, tauidx, sw, key) ==
    [NoOp EXCEPT !.k = "larfg", !.len = len, !.alpha = alpha, !.cj = cj,
                 !.arr = arr, !.idx = idx, !.tau = tau, !.tauidx = tauidx,
                 !.sw = sw, !.key = key]

(* ctmp = [conj] *TAU(tauidx);                                             *)
(* LAPACKE_zlarfx(COL_MAJOR, side, m, nn, V(idx), ctmp, c, ldc, WORK)      *)
OpLarfx(side, m, nn, arr, idx, tau, tauidx, cj, c, ldc) ==
    [NoOp EXCEPT !.k = "larfx", !.side = side, !.m = m, !.nn = nn,
                 !.arr = arr, !.idx = idx, !.tau = tau, !.tauidx = tauidx,
                 !.cj = cj, !.c = c, !.ldc = ldc]

(* variant: the segment starts one element early *)
Contig_early(start, cnt) == [i \in 1..cnt |-> start + (i - 2)]

(* offsets of the column segment of cnt contiguous elements at start       *)
Contig(start, cnt) == [i \in 1..cnt |-> start + (i - 1)]

(* variant: the full leading dimension is passed on *)
LDX_full == lda

(* leading dimension that walks the band buffer along a logical row *)
LDX == lda - 1

(* ---------------- coreblas_zgbtype1cb ---------------- *)
Type1Ops(st, ed, sweep) ==
    LET vpos   == VTpos(sweep, st).vpos
        taupos == VTpos(sweep, st).taupos
        len    == ed - st + 1
        lenj   == len - 1
    IN  IF uplo = CoreBlasUpper
        THEN << OpSet1("VP", vpos),
                OpCopyZero("VP", vpos + 1,
                           [i \in 1..(len - 1) |-> AU(st - 1, st + i)], TRUE),
                OpLarfg(len, AU(st - 1, st), TRUE, "VP", vpos + 1,
                        "TAUP", taupos, sweep, st),
                OpLarfx("R", len, len, "VP", vpos, "TAUP", taupos, FALSE,
                        AU(st, st), LDX),
                OpSet1("VQ", vpos),
                OpCopyZero("VQ", vpos + 1, Contig(AU(st + 1, st), len - 1),
                           FALSE),
                OpLarfg(len, AU(st, st), FALSE, "VQ", vpos + 1,
                        "TAUQ", taupos, sweep, st),
                OpLarfx("L", len, lenj, "VQ", vpos, "TAUQ", taupos, TRUE,
                        AU(st, st + 1), LDX) >>
        ELSE << OpSet1("VQ", vpos),
                OpCopyZero("VQ", vpos + 1, Contig(AL(st + 1, st - 1), len - 1),
                           FALSE),
                OpLarfg(len, AL(st, st - 1), FALSE, "VQ", vpos + 1,
                        "TAUQ", taupos, sweep, st),
                OpLarfx("L", len, len, "VQ", vpos, "TAUQ", taupos, TRUE,
                        AL(st, st), LDX),
                OpSet1("VP", vpos),
                OpCopyZero("VP", vpos + 1,
                           [i \in 1..(len - 1) |-> AL(st, st + i)], TRUE),
                OpLarfg(len, AL(st, st), TRUE, "VP", vpos + 1,
                        "TAUP", taupos, sweep, st),
                OpLarfx("R", lenj, len, "VP", vpos, "TAUP", taupos, FALSE,
                        AL(st + 1, st), LDX) >>

(* ---------------- coreblas_zgbtype2cb ---------------- *)
(* variant: the next block starts on the last column of the window *)
T2J1_overlap(ed) == ed

(* variant: the next block is not clipped at the matrix edge *)
T2J2_unclipped(ed) == ed + nb

T2J1(ed) == ed + 1
T2J2(ed) == imin(ed + nb, n - 1)

(* variant: the reflector keyed by the next block is applied *)
T2Deferred_nextkey(st, ed, sweep) ==
    LET J1  == T2J1(ed)
        J2  == T2J2(ed)
        lem == ed - st + 1
        len == J2 - J1 + 1
        vpos   == VTpos(sweep, J1).vpos
        taupos == VTpos(sweep, J1).taupos
    IN  IF uplo = CoreBlasUpper
        THEN OpLarfx("L", lem, len, "VQ", vpos, "TAUQ", taupos, TRUE,
                     AU(st, J1), LDX)
        ELSE OpLarfx("R", len, lem, "VP", vpos, "TAUP", taupos, FALSE,
                     AL(J1, st), LDX)

(* step 1: the application the previous kernel deferred *)
T2Deferred(st, ed, sweep) ==
    LET J1  == T2J1(ed)
        J2  == T2J2(ed)
        lem == ed - st + 1
        len == J2 - J1 + 1
        vpos   == VTpos(sweep, st).vpos
        taupos == VTpos(sweep, st).taupos
    IN  IF uplo = CoreBlasUpper
        THEN OpLarfx("L", lem, len, "VQ", vpos, "TAUQ", taupos, TRUE,
                     AU(st, J1), LDX)
        ELSE OpLarfx("R", len, lem, "VP", vpos, "TAUP", taupos, FALSE,
                     AL(J1, st), LDX)

(* step 2: eliminate the first row/column of the bulge and update the rest *)
T2Eliminate(st, ed, sweep) ==
    LET J1  == T2J1(ed)
        J2  == T2J2(ed)
        lem == (ed - st + 1) - 1
        len == J2 - J1 + 1
        vpos   == VTpos(sweep, J1).vpos
        taupos == VTpos(sweep, J1).taupos
    IN  IF uplo = CoreBlasUpper
        THEN << OpSet1("VP", vpos),
                OpCopyZero("VP", vpos + 1,
                           [i \in 1..(len - 1) |-> AU(st, J1 + i)], TRUE),
                OpLarfg(len, AU(st, J1), TRUE, "VP", vpos + 1,
                        "TAUP", taupos, sweep, J1),
                OpLarfx("R", lem, len, "VP", vpos, "TAUP", taupos, FALSE,
                        AU(st + 1, J1), LDX) >>
        ELSE << OpSet1("VQ", vpos),
                OpCopyZero("VQ", vpos + 1, Contig(AL(J1 + 1, st), len - 1),
                           FALSE),
                OpLarfg(len, AL(J1, st), FALSE, "VQ", vpos + 1,
                        "TAUQ", taupos, sweep, J1),
                OpLarfx("L", len, lem, "VQ", vpos, "TAUQ", taupos, TRUE,
                        AL(J1, st + 1), LDX) >>

(* variant: both branches are guarded by len > 0 *)
Type2Ops_oneguard(st, ed, sweep) ==
    LET len == T2J2(ed) - T2J1(ed) + 1
    IN  IF len > 0
        THEN << T2Deferred(st, ed, sweep) >> \o T2Eliminate(st, ed, sweep)
        ELSE << >>

Type2Ops(st, ed, sweep) ==
    LET len == T2J2(ed) - T2J1(ed) + 1
    IN  (IF len > 0 THEN << T2Deferred(st, ed, sweep) >> ELSE << >>)
        \o (IF len > 1 THEN T2Eliminate(st, ed, sweep) ELSE << >>)

(* ---------------- execution of the primitives ---------------- *)
VInit == <<-1, -1>>
VOne  == <<-2, -2>>
VCopy(v) == <<-3, v>>

Range(f) == {f[i] : i \in DOMAIN f}

(* store v at index i of f; an index outside the array leaves it alone *)
Put(f, i, v) == IF i \in DOMAIN f THEN [f EXCEPT ![i] = v] ELSE f
PutAll(f, I, v) == [i \in DOMAIN f |-> IF i \in I THEN v ELSE f[i]]
Get(f, i) == IF i \in DOMAIN f THEN f[i] ELSE 1

(* cells of the m-by-nn column-major block at c with leading dimension ldc *)
BlockCells(c, m, nn, ldc) ==
    {c + i + j * ldc : i \in 0..(m - 1), j \in 0..(nn - 1)}

(* variant: the vector is taken as long as the other dimension *)
LarfxLv_swapped(op) == IF op.side = "L" THEN op.nn ELSE op.m

(* length of the vector a reflector application reads *)
LarfxLv(op) == IF op.side = "L" THEN op.m ELSE op.nn
(* length of the work vector a reflector application needs *)
LarfxWork(op) == IF op.side = "L" THEN op.nn ELSE op.m

WriteA(S, cells) ==
    [S EXCEPT !.wrA = @ \cup cells,
              !.rewritten = @ \cup (cells \cap S.zeroed)]

ApplyOp(S, op) ==
    CASE op.k = "set1" ->
           [S EXCEPT !.R[op.arr] = Put(@, op.idx, VOne),
                     !.wrV = @ \cup {<<op.arr, op.idx>>}]
      [] op.k = "copyzero" ->
           LET cnt  == Len(op.cells)
               dst  == {op.idx + i - 1 : i \in 1..cnt}
               S1   == WriteA(S, Range(op.cells))
           IN  [S1 EXCEPT
                 !.R[op.arr] = [j \in DOMAIN @ |->
                                  IF j \in dst
                                  THEN VCopy(Get(S.A, op.cells[j - op.idx + 1]))
                                  ELSE @[j]],
                 !.A = PutAll(@, Range(op.cells), 0),
                 !.rdA = @ \cup Range(op.cells),
                 !.wrV = @ \cup {<<op.arr, j>> : j \in dst},
                 !.zeroed = @ \cup Range(op.cells)]
      [] op.k = "larfg" ->
           LET xs == {op.idx + i : i \in 0..(op.len - 2)}
               S1 == WriteA(S, {op.alpha})
           IN  [S1 EXCEPT
                 !.A = Put(@, op.alpha, 1),
                 !.rdA = @ \cup {op.alpha},
                 !.R[op.arr] = PutAll(@, xs, <<op.sw, op.key>>),
                 !.R[op.tau] = Put(@, op.tauidx, <<op.sw, op.key>>),
                 !.rdV = @ \cup {<<op.arr, j>> : j \in xs},
                 !.wrV = @ \cup {<<op.arr, j>> : j \in xs}
                           \cup {<<op.tau, op.tauidx>>}]
      [] op.k = "larfx" ->
           LET vs    == {op.idx + i : i \in 0..(LarfxLv(op) - 1)}
               cells == BlockCells(op.c, op.m, op.nn, op.ldc)
               S1    == WriteA(S, cells)
           IN  [S1 EXCEPT
                 !.A = PutAll(@, cells, 1),
                 !.rdA = @ \cup cells,
                 !.rdV = @ \cup {<<op.arr, j>> : j \in vs}
                           \cup {<<op.tau, op.tauidx>>},
                 !.work = IF LarfxWork(op) > @ THEN LarfxWork(op) ELSE @]
      [] OTHER -> S

RECURSIVE RunFrom(_, _, _)
RunFrom(S, ops, i) ==
    IF i > Len(ops) THEN S ELSE RunFrom(ApplyOp(S, ops[i]), ops, i + 1)

Run(S, ops) == RunFrom(S, ops, 1)

(* machine state handed to a kernel body, with empty access logs *)
Machine(a, vq, tauq, vp, taup) ==
    [A |-> a, R |-> [VQ |-> vq, TAUQ |-> tauq, VP |-> vp, TAUP |-> taup],
     rdA |-> {}, wrA |-> {}, rdV |-> {}, wrV |-> {},
     zeroed |-> {}, rewritten |-> {}, work |-> 0]

(* ---------------- kernel calls ---------------- *)
NoCall == [kind |-> "none", st |-> 0, ed |-> 0, sweep |-> 0]

Ops(call) ==
    CASE call.kind = "type1" -> Type1Ops(call.st, call.ed, call.sweep)
      [] call.kind = "type2" -> Type2Ops(call.st, call.ed, call.sweep)
      [] OTHER -> << >>

(* effect and access log of a call on the current state *)
Eff(call) == Run(Machine(A, VQ, TAUQ, VP, TAUP), Ops(call))

(* access log of a sequence of operations (the contents play no part) *)
LogOf(ops) ==
    LET z == [i \in DOMAIN VQ |-> VInit]
    IN  Run(Machine([o \in DOMAIN A |-> 0], z, z, z, z), ops)
Log(call) == LogOf(Ops(call))

AccA(S) == S.rdA \cup S.wrA
AccV(S) == S.rdV \cup S.wrV

(* some access of the call falls outside the arrays it was given *)
OutOfBounds(S) ==
    \/ \E o \in AccA(S) : o \notin DOMAIN S.A
    \/ \E e \in AccV(S) : e[2] \notin DOMAIN S.R[e[1]]

(* logical band of the active triangle *)
InBand(r, c) ==
    IF uplo = CoreBlasUpper THEN 0 <= c - r /\ c - r <= nb
                            ELSE 0 <= r - c /\ r - c <= nb
(* entries of the order-n matrix that have a cell in the buffer *)
Stored(r, c) ==
    IF uplo = CoreBlasUpper THEN -2 * nb <= r - c /\ r - c <= nb
                            ELSE -nb <= r - c /\ r - c <= 2 * nb
Entries == {e \in (0..(n - 1)) \X (0..(n - 1)) : Stored(e[1], e[2])}

(* position of the caller in one chase: "fresh" before any call, "t1" after *)
(* a type-1 call, "t2" after a type-2 call issued on its own, "t1t2" after *)
(* the type-2 call that continues the preceding type-1 call                *)
KernelCall(call, nextChain) ==
    /\ ~fault
    /\ LET S == Eff(call)
       IN  \/ /\ A' = S.A
              /\ VQ' = S.R.VQ
              /\ TAUQ' = S.R.TAUQ
              /\ VP' = S.R.VP
              /\ TAUP' = S.R.TAUP
              /\ fault' = FALSE
           \/ /\ OutOfBounds(S)
              /\ fault' = TRUE
              /\ UNCHANGED <<A, VQ, TAUQ, VP, TAUP>>
    /\ last' = call
    /\ chain' = nextChain
    /\ UNCHANGED <<uplo, n, nb, lda, wantz, Vblksiz, slots, par, mir, tradd,
                 tsqrt,
                   qr, swp, pemv, lu, luat>>

Windows == {w \in (0..(n - 1)) \X (0..(n - 1)) :
              w[1] <= w[2] /\ w[2] - w[1] + 1 <= nb}

coreblas_zgbtype1cb ==
    /\ chain = "fresh"
    /\ \E w \in Windows, sweep \in 0..MaxCallSweep :
         KernelCall([kind |-> "type1", st |-> w[1], ed |-> w[2],
                     sweep |-> sweep], "t1")

coreblas_zgbtype2cb ==
    \/ /\ chain = "fresh"
       /\ \E w \in Windows, sweep \in 0..MaxCallSweep :
            KernelCall([kind |-> "type2", st |-> w[1], ed |-> w[2],
                        sweep |-> sweep], "t2")
    \/ /\ chain = "t1"
       /\ KernelCall([last EXCEPT !.kind = "type2"], "t1t2")

(* no call of coreblas_ztradd / coreblas_ztsqrt has been made *)
NoSwp == swp = [calls |-> << >>]
NoLu == lu = [pc |-> "idle"] /\ luat = << >>
NoCalls ==
    /\ tradd = [done |-> FALSE] /\ tsqrt = [done |-> FALSE]
    /\ qr = [pc |-> "idle"] /\ pemv = [done |-> FALSE]
NoAux == NoCalls /\ NoSwp /\ NoLu

NoMir == [call |-> NoCall, up |-> << >>, lo |-> << >>]
NoPar == [c1 |-> NoCall, c2 |-> NoCall, pc1 |-> 0, pc2 |-> 0]

InitBand ==
    [o \in 0..(lda * n - 1) |->
        IF \E e \in Entries : AV(e[1], e[2]) = o /\ InBand(e[1], e[2])
        THEN 1 ELSE 0]
InitV == [i \in 0..(VSize - 1) |-> VInit]

InitParams ==
    /\ uplo \in {CoreBlasUpper, CoreBlasLower}
    /\ n \in 2..MaxN
    /\ nb \in 1..MaxNb
    /\ lda \in (3 * nb + 1)..(3 * nb + 1 + MaxPad)
    /\ wantz \in {0, 1}
    /\ Vblksiz \in 1..(IF wantz = 0 THEN 1 ELSE MaxVblksiz)

InitData ==
    /\ A = InitBand
    /\ VQ = InitV
    /\ TAUQ = InitV
    /\ VP = InitV
    /\ TAUP = InitV
    /\ last = NoCall
    /\ chain = "fresh"
    /\ fault = FALSE

Init ==
    /\ InitParams /\ InitData
    /\ slots = << >> /\ par = NoPar /\ mir = NoMir /\ NoAux

Next == coreblas_zgbtype1cb \/ coreblas_zgbtype2cb

Spec == Init /\ [][Next]_vars

(* ---------------- position lookup on its own ---------------- *)
(* the caller asks where the reflector of (sweep, col) lives; the last two *)
(* answers are kept                                                        *)
Locate(sweep, col) ==
    /\ LET found == [sweep |-> sweep, col |-> col,
                     vpos |-> VTpos(sweep, col).vpos,
                     taupos |-> VTpos(sweep, col).taupos]
       IN  slots' = IF slots = << >> THEN <<found>>
                    ELSE <<found, slots[1]>>
    /\ UNCHANGED <<uplo, n, nb, lda, wantz, Vblksiz, A, VQ, TAUQ, VP, TAUP,
                   last, chain, fault, par, mir, tradd, tsqrt,
                   qr, swp, pemv, lu, luat>>

InitSlots ==
    /\ uplo = CoreBlasUpper
    /\ n \in 2..MaxN
    /\ nb = 1
    /\ lda = 3 * nb + 1
    /\ wantz \in {0, 1}
    /\ Vblksiz = 1
    /\ InitData
    /\ slots = << >>
    /\ par = NoPar
    /\ mir = NoMir /\ NoAux

NextSlots == \E sweep \in 0..MaxSweep, col \in 0..(n - 1) : Locate(sweep, col)

SpecSlots == InitSlots /\ [][NextSlots]_vars

(* ---------------- two kernel calls running side by side ---------------- *)
(* columns (rows) of the matrix a call declares as its window *)
WinSet(call) ==
    IF call.kind = "type2"
    THEN (call.st..call.ed) \cup (T2J1(call.ed)..T2J2(call.ed))
    ELSE call.st..call.ed

ParCalls ==
    {[kind |-> k, st |-> w[1], ed |-> w[2], sweep |-> s] :
        k \in {"type1", "type2"}, w \in Windows, s \in 0..1}

ParStep(op) ==
    LET S == ApplyOp(Machine(A, VQ, TAUQ, VP, TAUP), op)
    IN  /\ A' = S.A
        /\ VQ' = S.R.VQ
        /\ TAUQ' = S.R.TAUQ
        /\ VP' = S.R.VP
        /\ TAUP' = S.R.TAUP
        /\ UNCHANGED <<uplo, n, nb, lda, wantz, Vblksiz, last, chain, fault,
                       slots, mir, tradd, tsqrt,
                   qr, swp, pemv, lu, luat>>

(* the first call executes its next statement *)
Step1 ==
    /\ par.pc1 < Len(Ops(par.c1))
    /\ ParStep(Ops(par.c1)[par.pc1 + 1])
    /\ par' = [par EXCEPT !.pc1 = @ + 1]

(* the second call executes its next statement *)
Step2 ==
    /\ par.pc2 < Len(Ops(par.c2))
    /\ ParStep(Ops(par.c2)[par.pc2 + 1])
    /\ par' = [par EXCEPT !.pc2 = @ + 1]

InitPar ==
    /\ uplo \in {CoreBlasUpper, CoreBlasLower}
    /\ n \in 2..MaxParN
    /\ nb \in 1..MaxParNb
    /\ lda = 3 * nb + 1
    /\ wantz = 0
    /\ Vblksiz = 1
    /\ InitData
    /\ slots = << >>
    /\ par \in {[c1 |-> a, c2 |-> b, pc1 |-> 0, pc2 |-> 0] :
                  a \in ParCalls, b \in ParCalls}
    /\ (par.c1.kind = "type1" /\ uplo = CoreBlasLower) => par.c1.st >= 1
    /\ (par.c2.kind = "type1" /\ uplo = CoreBlasLower) => par.c2.st >= 1
    /\ WinSet(par.c1) \cap WinSet(par.c2) = {}
    /\ mir = NoMir /\ NoAux

NextPar == Step1 \/ Step2

SpecPar == InitPar /\ [][NextPar]_vars

(* ---------------- the same call on either triangle ---------------- *)
(* logical (row, column) of the band-buffer offset o in the active view *)
EntryOf(o) ==
    LET c == o \div lda
        d == o % lda
    IN  <<d - (IF uplo = CoreBlasUpper THEN 2 * nb ELSE nb) + c, c>>
EntriesOf(cells) == {EntryOf(o) : o \in cells}

(* band offsets an operation touches *)
OpCells(op) ==
    CASE op.k = "copyzero" -> Range(op.cells)
      [] op.k = "larfg" -> {op.alpha}
      [] op.k = "larfx" -> BlockCells(op.c, op.m, op.nn, op.ldc)
      [] OTHER -> {}

(* what one statement does, in logical coordinates *)
Step(op) ==
    [k |-> op.k, arr |-> op.arr, idx |-> op.idx, tau |-> op.tau,
     tauidx |-> op.tauidx, side |-> op.side, m |-> op.m, nn |-> op.nn,
     len |-> op.len,
     seq |-> [i \in 1..Len(op.cells) |-> EntryOf(op.cells[i])],
     ents |-> EntriesOf(OpCells(op))]
Steps(call) == [i \in 1..Len(Ops(call)) |-> Step(Ops(call)[i])]

(* the caller runs a kernel with uplo = CoreBlasUpper, then the same       *)
(* kernel with the same arguments and uplo = CoreBlasLower; uplo holds the *)
(* argument of the next call                                               *)
MirrorEffect(call) ==
    LET S == Eff(call)
    IN  \/ /\ A' = S.A
           /\ VQ' = S.R.VQ
           /\ TAUQ' = S.R.TAUQ
           /\ VP' = S.R.VP
           /\ TAUP' = S.R.TAUP
           /\ fault' = FALSE
        \/ /\ OutOfBounds(S)
           /\ fault' = TRUE
           /\ UNCHANGED <<A, VQ, TAUQ, VP, TAUP>>

MirrorUpper ==
    /\ uplo = CoreBlasUpper /\ mir.call = NoCall /\ ~fault
    /\ \E k \in {"type1", "type2"}, w \in Windows, sweep \in 0..MaxCallSweep :
         LET call == [kind |-> k, st |-> w[1], ed |-> w[2], sweep |-> sweep]
         IN  /\ MirrorEffect(call)
             /\ mir' = [call |-> call, up |-> Steps(call), lo |-> << >>]
             /\ last' = call
    /\ uplo' = CoreBlasLower
    /\ UNCHANGED <<n, nb, lda, wantz, Vblksiz, chain, slots, par, tradd,
                   tsqrt,
                   qr, swp, pemv, lu, luat>>

MirrorLower ==
    /\ uplo = CoreBlasLower /\ mir.call # NoCall /\ chain = "fresh" /\ ~fault
    /\ MirrorEffect(mir.call)
    /\ mir' = [mir EXCEPT !.lo = Steps(mir.call)]
    /\ chain' = "both"
    /\ UNCHANGED <<uplo, n, nb, lda, wantz, Vblksiz, last, slots, par, tradd,
                   tsqrt,
                   qr, swp, pemv, lu, luat>>

InitMirror ==
    /\ uplo = CoreBlasUpper
    /\ n \in 2..MaxParN
    /\ nb \in 1..MaxParNb
    /\ lda \in (3 * nb + 1)..(3 * nb + 1 + MaxPad)
    /\ wantz \in {0, 1}
    /\ Vblksiz = 1
    /\ InitData
    /\ slots = << >>
    /\ par = NoPar
    /\ mir = NoMir /\ NoAux

NextMirror == MirrorUpper \/ MirrorLower

SpecMirror == InitMirror /\ [][NextMirror]_vars

(* ---------------- the wrapper of the README ---------------- *)
(* arguments the wrapper fixes: st = 0, ed = 4, sweep = 1 *)
ReadmeCall == [kind |-> "type1", st |-> 0, ed |-> 4, sweep |-> 1]

(* coreblas_gbtype1cb! : one type-1 call on the caller's arrays *)
readme_gbtype1cb ==
    /\ chain = "fresh"
    /\ KernelCall(ReadmeCall, "t1")

(* A = rand(3*nb+1, n), of which at most one element happens to be zero;   *)
(* VP, VQ, TAUP, TAUQ = zeros(n)                                           *)
InitReadme ==
    /\ uplo = CoreBlasUpper
    /\ n \in 4..MaxExN
    /\ nb \in 1..MaxExNb
    /\ lda = 3 * nb + 1
    /\ wantz = 0
    /\ Vblksiz = 1
    /\ \E z \in 0..(lda * n) :
         A = [o \in 0..(lda * n - 1) |-> IF o = z THEN 0 ELSE 1]
    /\ VQ = [i \in 0..(n - 1) |-> VInit]
    /\ TAUQ = [i \in 0..(n - 1) |-> VInit]
    /\ VP = [i \in 0..(n - 1) |-> VInit]
    /\ TAUP = [i \in 0..(n - 1) |-> VInit]
    /\ last = NoCall
    /\ chain = "fresh"
    /\ fault = FALSE
    /\ slots = << >>
    /\ par = NoPar
    /\ mir = NoMir /\ NoAux

NextReadme == readme_gbtype1cb

SpecReadme == InitReadme /\ [][NextReadme]_vars

(* ---------------- coreblas_ztradd ---------------- *)
(* the band kernels take no part: their state is parked *)
InitIdle ==
    /\ uplo = CoreBlasUpper
    /\ n = 2
    /\ nb = 1
    /\ lda = 3 * nb + 1
    /\ wantz = 0
    /\ Vblksiz = 1
    /\ InitData
    /\ slots = << >>
    /\ par = NoPar
    /\ mir = NoMir

Transposes == {"NoTrans", "Trans", "ConjTrans"}

(* variant: the leading dimension is checked even for an empty matrix *)
TraddLdaBad_strict(a) ==
    \/ a.transa = "NoTrans" /\ a.lda < imax(1, a.m)
    \/ a.transa # "NoTrans" /\ a.lda < imax(1, a.n)

TraddLdaBad(a) ==
    \/ a.transa = "NoTrans" /\ a.lda < imax(1, a.m) /\ a.m > 0
    \/ a.transa # "NoTrans" /\ a.lda < imax(1, a.n) /\ a.n > 0

(* the argument checks, in program order *)
TraddCheck(a) ==
    IF a.uplo # CoreBlasUpper /\ a.uplo # CoreBlasLower THEN -1
    ELSE IF a.transa \notin Transposes THEN -2
    ELSE IF a.m < 0 THEN -3
    ELSE IF a.n < 0 THEN -4
    ELSE IF a.A = "NULL" THEN -6
    ELSE IF TraddLdaBad(a) THEN -7
    ELSE IF a.B = "NULL" THEN -9
    ELSE IF a.ldb < imax(1, a.m) /\ a.m > 0 THEN -10
    ELSE CoreBlasSuccess

(* <<offset in B, offset in A>> of every element the loops update *)
TraddPairs(a) ==
    LET rows(j) == IF a.uplo = CoreBlasLower THEN j..(a.m - 1)
                   ELSE 0..(imin(j + 1, a.m) - 1)
        aoff(i, j) == IF a.transa = "NoTrans" THEN a.lda * j + i
                      ELSE a.lda * i + j
        cells == {c \in (0..(a.m - 1)) \X (0..(a.n - 1)) : c[1] \in rows(c[2])}
    IN  {<<a.ldb * c[2] + c[1], aoff(c[1], c[2])>> : c \in cells}

(* the array the caller passes as B: ldb-by-n *)
TraddB0(a) ==
    [o \in 0..((IF a.B = "NULL" THEN 0 ELSE imax(a.ldb, 0) * imax(a.n, 0)) - 1)
       |-> VInit]
(* number of elements of the array passed as A: lda-by-k *)
TraddASize(a) ==
    IF a.A = "NULL" THEN 0
    ELSE imax(a.lda, 0) * imax(IF a.transa = "NoTrans" THEN a.n ELSE a.m, 0)

TraddRun(a) ==
    LET info == TraddCheck(a)
        B0   == TraddB0(a)
        quick == a.m = 0 \/ a.n = 0 \/ (a.alpha = 0 /\ a.beta = 1)
        P    == IF info # CoreBlasSuccess \/ quick THEN {} ELSE TraddPairs(a)
    IN  [ret |-> info,
         Bout |-> [o \in DOMAIN B0 |->
                     IF \E q \in P : q[1] = o
                     THEN VCopy(CHOOSE x \in {q[2] : q \in {r \in P : r[1] = o}}
                                  : TRUE)
                     ELSE B0[o]],
         touched |-> P,
         oob |-> \E q \in P : q[1] \notin DOMAIN B0
                              \/ q[2] \notin 0..(TraddASize(a) - 1)]

TraddArgs ==
    [uplo : {0, CoreBlasUpper, CoreBlasLower},
     transa : Transposes \cup {"Invalid"},
     m : (-1)..MaxDim, n : (-1)..MaxDim,
     alpha : {0, 1}, A : {"NULL", "A"}, lda : 0..MaxLd,
     beta : {0, 1}, B : {"NULL", "B"}, ldb : 0..MaxLd]

coreblas_ztradd ==
    /\ ~tradd.done
    /\ \E a \in TraddArgs :
         tradd' = [done |-> TRUE, args |-> a, B |-> TraddB0(a),
                   out |-> TraddRun(a)]
    /\ UNCHANGED <<uplo, n, nb, lda, wantz, Vblksiz, A, VQ, TAUQ, VP, TAUP,
                   last, chain, fault, slots, par, mir, tsqrt,
                   qr, swp, pemv, lu, luat>>

InitTradd == InitIdle /\ NoAux
NextTradd == coreblas_ztradd
SpecTradd == InitTradd /\ [][NextTradd]_vars

(* ---------------- coreblas_ztsqrt ---------------- *)
(* the argument checks, in program order *)
TsqrtCheck(a) ==
    IF a.m < 0 THEN -1
    ELSE IF a.n < 0 THEN -2
    ELSE IF a.ib < 0 THEN -3
    ELSE IF a.null = "A1" THEN -4
    ELSE IF a.lda1 < imax(1, a.m) /\ a.m > 0 THEN -5
    ELSE IF a.null = "A2" THEN -6
    ELSE IF a.lda2 < imax(1, a.m) /\ a.m > 0 THEN -7
    ELSE IF a.null = "T" THEN -8
    ELSE IF a.ldt < imax(1, a.ib) /\ a.ib > 0 THEN -9
    ELSE IF a.null = "tau" THEN -10
    ELSE IF a.null = "work" THEN -11
    ELSE CoreBlasSuccess

(* elements written while column c = ii+i of the panel at ii is reduced *)
TsqrtColumn(a, ii, i) ==
    LET sb == imin(a.n - ii, a.ib)
        c  == ii + i
        rest == 0..(sb - i - 2)
    IN  {<<"A1", a.lda1 * c + c>>, <<"tau", c>>}
        \cup {<<"A2", a.lda2 * c + r>> : r \in 0..(a.m - 1)}
        \cup (IF c + 1 < a.n
              THEN {<<"work", k>> : k \in rest}
                   \cup {<<"A1", a.lda1 * (c + 1 + k) + c>> : k \in rest}
                   \cup {<<"A2", a.lda2 * (c + 1 + k) + r>> :
                           k \in rest, r \in 0..(a.m - 1)}
              ELSE {})
        \cup {<<"T", a.ldt * c + r>> : r \in 0..i}

(* elements written by the coreblas_ztsmqr call that updates the columns   *)
(* right of the panel at ii; the call returns early, its result ignored,   *)
(* when one of its own leading-dimension checks fails                      *)
TsqrtTrailing(a, ii) ==
    LET sb == imin(a.n - ii, a.ib)
        nc == a.n - (ii + sb)
        rejected == \/ a.lda1 < imax(1, sb)
                    \/ a.lda2 < imax(1, a.m)
                    \/ a.ldt < imax(1, a.ib)
    IN  IF nc <= 0 \/ rejected THEN {}
        ELSE {<<"A1", a.lda1 * (ii + sb + cc) + ii + r>> :
                cc \in 0..(nc - 1), r \in 0..(sb - 1)}
             \cup {<<"A2", a.lda2 * (ii + sb + cc) + r>> :
                     cc \in 0..(nc - 1), r \in 0..(a.m - 1)}
             \cup {<<"work", k>> : k \in 0..(sb * nc - 1)}

TsqrtWrites(a) ==
    LET panels == {ii \in 0..(a.n - 1) : ii % a.ib = 0}
    IN  UNION {TsqrtTrailing(a, ii)
               \cup UNION {TsqrtColumn(a, ii, i) :
                             i \in 0..(imin(a.n - ii, a.ib) - 1)} :
               ii \in panels}

(* number of elements of each array the caller passes *)
TsqrtSize(a, arr) ==
    IF a.null = arr THEN 0
    ELSE CASE arr = "A1" -> imax(a.lda1, 0) * imax(a.n, 0)
           [] arr = "A2" -> imax(a.lda2, 0) * imax(a.n, 0)
           [] arr = "T" -> imax(a.ldt, 0) * imax(a.n, 0)
           [] arr = "tau" -> imax(a.n, 0)
           [] OTHER -> imax(a.ib, 0) * imax(a.n, 0)

TsqrtRun(a) ==
    LET info  == TsqrtCheck(a)
        quick == a.m = 0 \/ a.n = 0 \/ a.ib = 0
        W     == IF info # CoreBlasSuccess \/ quick THEN {}
                 ELSE TsqrtWrites(a)
        inside(e) == 0 <= e[2] /\ e[2] < TsqrtSize(a, e[1])
    IN  [ret |-> info,
         wr  |-> {e \in W : inside(e)},
         oob |-> \E e \in W : ~inside(e)]

TsqrtArgs ==
    [m : (-1)..MaxDim, n : (-1)..MaxDim, ib : (-1)..MaxDim,
     lda1 : 0..MaxLd, lda2 : 0..MaxLd, ldt : 0..MaxLd,
     null : {"none", "A1", "A2", "T", "tau", "work"}]

coreblas_ztsqrt ==
    /\ ~tsqrt.done
    /\ \E a \in TsqrtArgs :
         LET R == TsqrtRun(a)
         IN  /\ tsqrt' = [done |-> TRUE, args |-> a, out |-> R]
             /\ \/ fault' = FALSE
                \/ R.oob /\ fault' = TRUE
    /\ UNCHANGED <<uplo, n, nb, lda, wantz, Vblksiz, A, VQ, TAUQ, VP, TAUP,
                   last, chain, slots, par, mir, tradd,
                   qr, swp, pemv, lu, luat>>

InitTsqrt == InitIdle /\ NoAux
NextTsqrt == coreblas_ztsqrt
SpecTsqrt == InitTsqrt /\ [][NextTsqrt]_vars

(* ---------------- block loop of coreblas_zunmqr / coreblas_ztsmqr ------- *)
MaxK == 5
MaxIb == 3
MaxVisit == 6

(* every variable of the band kernels and of the single-call routines *)
band == <<uplo, n, nb, lda, wantz, Vblksiz, A, VQ, TAUQ, VP, TAUP,
          last, chain, fault, slots, par, mir, tradd, tsqrt>>

Sides == {"Left", "Right"}

(* the arguments that steer the loop; the matrix dimensions are at least  *)
(* k and positive, the pointers non-NULL and the leading dimensions legal *)
QrArgs ==
    [fn : {"zunmqr", "ztsmqr"}, side : Sides, trans : Transposes,
     k : (-1)..MaxK, ib : (-1)..MaxIb]

QrCheck(a) ==
    IF a.trans # "NoTrans" /\ a.trans # "ConjTrans" THEN -2
    ELSE IF a.k < 0 THEN (IF a.fn = "zunmqr" THEN -5 ELSE -7)
    ELSE IF a.ib < 0 THEN (IF a.fn = "zunmqr" THEN -6 ELSE -8)
    ELSE CoreBlasSuccess

QrQuick(a) == a.k = 0 \/ (a.fn = "ztsmqr" /\ a.ib = 0)

QrForward(a) ==
    \/ a.side = "Left" /\ a.trans # "NoTrans"
    \/ a.side = "Right" /\ a.trans = "NoTrans"

(* variant: the backward loop starts at the multiple of ib at or below k *)
QrI1_floor(k, ib) == (k \div ib) * ib

(* start of the backward loop *)
QrI1(k, ib) == ((k - 1) \div ib) * ib

(* entry: argument checks, quick return, choice of i1 and i3; the         *)
(* backward start divides by ib, which is undefined for ib = 0: the call   *)
(* then either traps or goes on with a quotient of 0                       *)
QrCall ==
    /\ qr.pc = "idle"
    /\ \E a \in QrArgs :
         LET st(pc, ret, i, i3) ==
               [pc |-> pc, args |-> a, ret |-> ret, i |-> i, i3 |-> i3,
                visited |-> << >>]
         IN  IF QrCheck(a) # CoreBlasSuccess
             THEN qr' = st("done", QrCheck(a), 0, 0)
             ELSE IF QrQuick(a)
             THEN qr' = st("done", CoreBlasSuccess, 0, 0)
             ELSE IF QrForward(a)
             THEN qr' = st("loop", CoreBlasSuccess, 0, a.ib)
             ELSE IF a.ib = 0
             THEN \/ qr' = st("trap", CoreBlasSuccess, 0, 0)
                  \/ qr' = st("loop", CoreBlasSuccess, 0, 0)
             ELSE qr' = st("loop", CoreBlasSuccess, QrI1(a.k, a.ib), -a.ib)
    /\ UNCHANGED <<band, swp, pemv, lu, luat>>

(* one iteration: the block reflector of kb columns starting at i *)
QrBlock ==
    /\ qr.pc = "loop"
    /\ qr.i > -1 /\ qr.i < qr.args.k
    /\ Len(qr.visited) < MaxVisit
    /\ qr' = [qr EXCEPT
                !.visited = Append(@, <<qr.i, imin(qr.args.ib,
                                                  qr.args.k - qr.i)>>),
                !.i = @ + qr.i3]
    /\ UNCHANGED <<band, swp, pemv, lu, luat>>

(* the loop condition fails: return *)
QrReturn ==
    /\ qr.pc = "loop"
    /\ ~(qr.i > -1 /\ qr.i < qr.args.k)
    /\ qr' = [qr EXCEPT !.pc = "done"]
    /\ UNCHANGED <<band, swp, pemv, lu, luat>>

InitQr == InitIdle /\ NoAux
NextQr == QrCall \/ QrBlock \/ QrReturn
SpecQr == InitQr /\ [][NextQr]_vars
(* the routine runs on one thread: it keeps executing *)
FairQr == SpecQr /\ WF_vars(NextQr)

(* ---------------- coreblas_zgeswp ---------------- *)
MaxSwpDim == 3
MaxSwpWidth == 2
MaxSwpCalls == 2

(* the matrix is kept by tiles: a cell is <<tile, offset in the tile>>;    *)
(* tile t of a panel starts at its own address and has leading dimension   *)
(* mb                                                                      *)
tile_mmain(a, t) == a.mb

(* element c of logical row r, as cblas_zswap walks it *)
SwpRowCell(a, r, c) ==
    <<r \div a.mb, (r % a.mb) + c * tile_mmain(a, r \div a.mb)>>
(* element r of logical column c *)
SwpColCell(a, c, r) == <<c \div a.nb, (c % a.nb) * tile_mmain(a, 0) + r>>

(* the two vectors handed to cblas_zswap for lines x and y *)
SwpVec(a, x) ==
    IF a.colrow = "Rowwise"
    THEN [c \in 1..a.n |-> SwpRowCell(a, x, c - 1)]
    ELSE [r \in 1..a.m |-> SwpColCell(a, x, r - 1)]

RECURSIVE cblas_zswap(_, _, _, _)
cblas_zswap(M, X, Y, i) ==
    IF i > Len(X) THEN M
    ELSE cblas_zswap([M EXCEPT ![X[i]] = M[Y[i]], ![Y[i]] = M[X[i]]],
                     X, Y, i + 1)

(* variant: both directions walk upwards *)
SwpOrder_up(a, incx) == [i \in 1..(a.k2 - a.k1 + 1) |-> a.k1 - 1 + (i - 1)]

(* indices the loop visits, in order (incx = 1 or -1) *)
SwpOrder(a, incx) ==
    IF incx > 0
    THEN [i \in 1..(a.k2 - a.k1 + 1) |-> a.k1 - 1 + (i - 1)]
    ELSE [i \in 1..(a.k2 - a.k1 + 1) |-> a.k2 - 1 - (i - 1)]

RECURSIVE SwpRun(_, _, _, _)
SwpRun(a, S, ord, i) ==
    IF i > Len(ord) THEN S
    ELSE LET x == ord[i]
             y == a.ipiv[x] - 1
         IN  IF y # x
             THEN SwpRun(a, [A |-> cblas_zswap(S.A, SwpVec(a, x),
                                               SwpVec(a, y), 1),
                             swaps |-> Append(S.swaps, <<x, y>>)],
                         ord, i + 1)
             ELSE SwpRun(a, S, ord, i + 1)

(* lines (rows or columns) that are permuted, and cells of the panel *)
SwpDim(a) == IF a.colrow = "Rowwise" THEN a.m ELSE a.n
SwpCells(a) ==
    UNION {Range(SwpVec(a, x)) : x \in 0..(SwpDim(a) - 1)}

(* a column panel (one tile wide) for row swaps, a row panel (one tile    *)
(* high) for column swaps; 1 <= k1 <= k2 <= number of lines; every pivot   *)
(* names a line of the panel                                               *)
SwpArgs ==
    {a \in [colrow : {"Rowwise", "Columnwise"},
            m : 1..MaxSwpDim, n : 1..MaxSwpDim,
            mb : 1..MaxSwpDim, nb : 1..MaxSwpDim,
            k1 : 1..MaxSwpDim, k2 : 1..MaxSwpDim,
            ipiv : UNION {[0..(d - 1) -> 1..d] : d \in 1..MaxSwpDim}] :
       /\ a.k1 <= a.k2 /\ a.k2 <= SwpDim(a)
       /\ DOMAIN a.ipiv = 0..(SwpDim(a) - 1)
       /\ IF a.colrow = "Rowwise"
          THEN a.n <= MaxSwpWidth /\ a.nb = a.n /\ a.mb <= a.m
          ELSE a.m <= MaxSwpWidth /\ a.mb = a.m /\ a.nb <= a.n}

coreblas_zgeswp(incx) ==
    /\ Len(swp.calls) < MaxSwpCalls
    /\ LET R == SwpRun(swp.args, [A |-> swp.A, swaps |-> << >>],
                       SwpOrder(swp.args, incx), 1)
       IN  swp' = [swp EXCEPT !.A = R.A,
                              !.calls = Append(@, incx),
                              !.swaps = Append(@, R.swaps)]
    /\ UNCHANGED <<band, qr, pemv, lu, luat>>

InitSwp ==
    /\ InitIdle /\ NoCalls /\ NoLu
    /\ \E a \in SwpArgs :
         swp = [calls |-> << >>, swaps |-> << >>, args |-> a,
                A0 |-> [c \in SwpCells(a) |-> c],
                A |-> [c \in SwpCells(a) |-> c]]
NextSwp == coreblas_zgeswp(1) \/ coreblas_zgeswp(-1)
SpecSwp == InitSwp /\ [][NextSwp]_vars

(* ---------------- coreblas_zpemv ---------------- *)
MaxInc == 2

Storevs == {"Columnwise", "Rowwise"}

(* variant: every legal pair of storev and trans is let through *)
PemvSupported_any(a) == TRUE

(* the pairs of storev and trans the argument check lets through *)
PemvSupported(a) ==
    \/ a.storev = "Columnwise" /\ a.trans # "NoTrans"
    \/ a.storev = "Rowwise" /\ a.trans = "NoTrans"

PemvCheck(a) ==
    IF a.trans \notin Transposes THEN -1
    ELSE IF a.storev \notin Storevs THEN -2
    ELSE IF ~PemvSupported(a) THEN -2
    ELSE IF a.m < 0 THEN -3
    ELSE IF a.n < 0 THEN -4
    ELSE IF a.l > imin(a.m, a.n) THEN -5
    ELSE IF a.lda < imax(1, a.m) THEN -8
    ELSE IF a.incx < 1 THEN -10
    ELSE IF a.incy < 1 THEN -13
    ELSE CoreBlasSuccess

(* elements of Y written by a level-1/level-2 call on cnt elements from   *)
(* Y[first] with stride incy                                               *)
PemvY(a, first, cnt) == {first + a.incy * i : i \in 0..(cnt - 1)}

(* the body after the checks: where control ends up, the return value and *)
(* the elements of Y and work that were written                            *)
PemvBody(a) ==
    LET l == IF a.l = 1 THEN 0 ELSE a.l
        top == IF l > 0 THEN PemvY(a, 0, l) ELSE {}
        wk  == IF l > 0 THEN 0..(l - 1) ELSE {}
        out(at, ret, wy, ww) == [at |-> at, ret |-> ret, wrY |-> wy,
                                 wrWork |-> ww]
    IN  IF a.m = 0 \/ a.n = 0 THEN out("quick", CoreBlasSuccess, {}, {})
        ELSE IF a.alpha = 0 /\ a.beta = 0
        THEN out("quick", CoreBlasSuccess, {}, {})
        ELSE IF a.storev = "Columnwise"
        THEN IF a.trans = "NoTrans"
             THEN out("Columnwise/NoTrans not implemented", -1, {}, {})
             ELSE out("Columnwise/Trans", CoreBlasSuccess,
                      top \cup (IF a.n > l
                                THEN PemvY(a, a.incy * l, a.n - l) ELSE {}),
                      wk)
        ELSE IF a.trans = "NoTrans"
             THEN out("Rowwise/NoTrans", CoreBlasSuccess,
                      top \cup (IF a.m > l
                                THEN PemvY(a, a.incy * l, a.m - l) ELSE {}),
                      wk)
             ELSE out("Rowwise/Trans not implemented", -1, {}, {})

PemvRun(a) ==
    IF PemvCheck(a) # CoreBlasSuccess
    THEN [at |-> "check", ret |-> PemvCheck(a), wrY |-> {}, wrWork |-> {}]
    ELSE PemvBody(a)

PemvArgs ==
    [trans : Transposes \cup {"Invalid"}, storev : Storevs \cup {"Invalid"},
     m : (-1)..MaxDim, n : (-1)..MaxDim, l : (-1)..MaxDim,
     alpha : {0, 1}, lda : 0..MaxLd, incx : 0..MaxInc,
     beta : {0, 1}, incy : 0..MaxInc]

coreblas_zpemv ==
    /\ ~pemv.done
    /\ \E a \in PemvArgs :
         pemv' = [done |-> TRUE, args |-> a, out |-> PemvRun(a)]
    /\ UNCHANGED <<band, qr, swp, lu, luat>>

InitPemv == InitIdle /\ NoAux
NextPemv == coreblas_zpemv
SpecPemv == InitPemv /\ [][NextPemv]_vars

(* ---------------- coreblas_zgetrf ---------------- *)
MaxLuM == 4
MaxLuMb == 3
MaxLuIb == 2
MaxSize == 2
MaxVal == 2

(* matrix elements are exact rationals <<numerator, denominator>> with a  *)
(* positive denominator and no common factor (real parts only; the         *)
(* imaginary parts are zero)                                               *)
Abs(x) == IF x < 0 THEN -x ELSE x
RECURSIVE Gcd(_, _)
Gcd(x, y) == IF y = 0 THEN x ELSE Gcd(y, x % y)
Rat(num, den) ==
    LET g == Gcd(Abs(num), Abs(den))
        s == IF den < 0 THEN -1 ELSE 1
    IN  IF den = 0 THEN <<0, 0>>
        ELSE <<s * (num \div g), s * (den \div g)>>
RZero == <<0, 1>>
RSub(x, y) == Rat(x[1] * y[2] - y[1] * x[2], x[2] * y[2])
RMul(x, y) == Rat(x[1] * y[1], x[2] * y[2])
RDiv(x, y) == Rat(x[1] * y[2], x[2] * y[1])
(* coreblas_dcabs1(x) > coreblas_dcabs1(y) *)
dcabs1_gt(x, y) == Abs(x[1]) * y[2] > Abs(y[1]) * x[2]

(* the panel descriptor: A.m rows in tiles of A.mb rows, A.n columns that *)
(* lie in one tile column, the diagonal inside tile 0                      *)
tile_mview(a, l) == imin(a.mb, a.m - l * a.mb)
tile_nview(a, l) == a.n
LuMt(a) == (a.m + a.mb - 1) \div a.mb
LuMin(a) == imin(a.m, a.n)
LuKb(a, k) == imin(LuMin(a) - k, a.ib)
LuRanks(a) == 0..(a.size - 1)

(* element i of column c of tile l: al[i + c*ldal] *)
LuCell(a, l, i, c) == <<"A", l, i + c * tile_mmain(a, l)>>
(* element of global row g *)
LuRowCell(a, g, c) == LuCell(a, g \div a.mb, g % a.mb, c)
LuInfo == <<"info", 0, 0>>
LuIpiv(j) == <<"ipiv", j, 0>>
LuMaxVal(r) == <<"max_val", r, 0>>
LuMaxIdx(r) == <<"max_idx", r, 0>>

(* variant: every rank works on every tile *)
LuTiles_all(a, r) == 0..(LuMt(a) - 1)

(* tiles of rank r: l = rank, rank + size, ... below A.mt *)
LuTiles(a, r) == {l \in 0..(LuMt(a) - 1) : l % a.size = r}

(* rows of tile l below the diagonal element of column j *)
LuRowsBelow(a, l, j) ==
    IF l = 0 THEN (j + 1)..(tile_mview(a, 0) - 1)
    ELSE 0..(tile_mview(a, l) - 1)

(* max_idx of row i of tile l, relative to row j *)
LuIdx(a, l, i, j) == IF l = 0 THEN i - j ELSE a.mb * l + i - j

(* pivot candidates of a rank, in the order the search visits them *)
LuCands(a, r, j) ==
    LET C == {<<l, i>> \in LuTiles(a, r) \X (0..(a.mb - 1)) :
                i \in LuRowsBelow(a, l, j)}
        before(p, q) == p[1] < q[1] \/ (p[1] = q[1] /\ p[2] < q[2])
    IN  [x \in 1..Cardinality(C) |->
           CHOOSE p \in C : Cardinality({q \in C : before(q, p)}) = x - 1]

RECURSIVE LuBest(_, _, _, _)
(* running maximum [val, idx] over candidates cands[i..]: replaced only   *)
(* by a strictly larger candidate                                          *)
LuBest(best, vals, idxs, i) ==
    IF i > Len(vals) THEN best
    ELSE LuBest(IF dcabs1_gt(vals[i], best.val)
                THEN [val |-> vals[i], idx |-> idxs[i]] ELSE best,
                vals, idxs, i + 1)

(* position of a rank: the code it runs next, up to its next barrier *)
LuAt(ph, k, j) == [ph |-> ph, k |-> k, j |-> j]

(* position after the phase at p *)
LuNextAt(a, p) ==
    CASE p.ph = "search" -> LuAt("reduce", p.k, p.j)
      [] p.ph = "reduce" -> LuAt("update", p.k, p.j)
      [] p.ph = "update" ->
           IF p.j + 1 < p.k + LuKb(a, p.k) THEN LuAt("search", p.k, p.j + 1)
           ELSE LuAt("sync", p.k, p.j)
      [] p.ph = "sync" -> LuAt("right", p.k, p.j)
      [] p.ph = "right" -> LuAt("gemm", p.k, p.j)
      [] p.ph = "gemm" ->
           IF p.k + a.ib < LuMin(a)
           THEN LuAt("search", p.k + a.ib, p.k + a.ib)
           ELSE LuAt("left", 0, 0)
      [] OTHER -> LuAt("done", 0, 0)

(* variant: only rank 0 reaches the barrier that ends the reduction *)
LuWaits_rank0(r, ph) ==
    IF ph = "left" \/ (ph = "reduce" /\ r # 0) THEN 0 ELSE 1

(* coreblas_barrier_wait calls that end a phase *)
LuWaits(r, ph) == IF ph = "left" THEN 0 ELSE 1

(* rank r is at phase ph and not held at a barrier: every rank has made   *)
(* as many coreblas_barrier_wait calls as r                                *)
LuReady(r, ph) ==
    /\ lu.pc = "run"
    /\ r \in LuRanks(lu.args)
    /\ luat[r].ph = ph
    /\ \A q \in LuRanks(lu.args) : lu.calls[q] >= lu.calls[r]

(* rank r finishes a phase: S is the memory it leaves, rd and wr the      *)
(* locations it read and wrote since its last barrier                      *)
LuFinish(r, S, rd, wr) ==
    /\ luat' = [luat EXCEPT ![r] = LuNextAt(lu.args, @)]
    /\ lu' = [S EXCEPT
                !.calls[r] = @ + LuWaits(r, luat[r].ph),
                !.log[r] = [ep |-> lu.calls[r], ph |-> luat[r].ph,
                            rd |-> rd, wr |-> wr]]
    /\ UNCHANGED <<band, qr, swp, pemv>>

(* rows of column j from the diagonal down whose magnitude is the largest *)
LuColMax(a, M, j) ==
    {g \in j..(a.m - 1) :
       \A h \in j..(a.m - 1) :
         ~dcabs1_gt(M[LuRowCell(a, h, j)], M[LuRowCell(a, g, j)])}

(* every element of column j from the diagonal down is zero *)
LuColZero(a, M, j) == \A g \in j..(a.m - 1) : M[LuRowCell(a, g, j)][1] = 0

(* pivot search of column j (lines 46-72) *)
LuSearch(r) ==
    /\ LuReady(r, "search")
    /\ LET a == lu.args
           j == luat[r].j
           cands == LuCands(a, r, j)
           cells == [x \in DOMAIN cands |->
                       LuCell(a, cands[x][1], cands[x][2], j)]
           best == LuBest([val |-> lu.A[LuCell(a, 0, j, j)], idx |-> 0],
                          [x \in DOMAIN cands |-> lu.A[cells[x]]],
                          [x \in DOMAIN cands |->
                             LuIdx(a, cands[x][1], cands[x][2], j)], 1)
       IN  LuFinish(r,
                    [lu EXCEPT !.max_val[r] = best.val,
                               !.max_idx[r] = best.idx],
                    {LuCell(a, 0, j, j)} \cup Range(cells)
                      \cup (IF Len(cands) > 0 THEN {LuMaxVal(r)} ELSE {}),
                    {LuMaxVal(r), LuMaxIdx(r)})

(* variant: a zero pivot is reported whatever *info holds *)
LuSingular_any(info, val) == val[1] = 0

(* *info == 0 && max_val[0] == 0.0 *)
LuSingular(info, val) == info = 0 /\ val[1] = 0

(* ipiv[j] as stored during the panel factorization *)
LuBlockRel(jp, k) == jp - k + 1

(* max reduction, pivot adjustment, singularity check and pivot swap of   *)
(* column j (lines 75-105)                                                 *)
LuReduce(r) ==
    /\ LuReady(r, "reduce")
    /\ IF r # 0 THEN LuFinish(r, lu, {}, {})
       ELSE
       LET a == lu.args
           j == luat[r].j
           k == luat[r].k
           kb == LuKb(a, k)
           best == LuBest([val |-> lu.max_val[0], idx |-> lu.max_idx[0]],
                          [i \in 1..(a.size - 1) |-> lu.max_val[i]],
                          [i \in 1..(a.size - 1) |-> lu.max_idx[i]], 1)
           jp == j + best.idx
           sing == LuSingular(lu.info, best.val)
           swap == ~sing /\ jp # j
           X == [c \in 1..kb |-> LuCell(a, 0, j, k + c - 1)]
           Y == [c \in 1..kb |->
                   LuCell(a, jp \div a.mb, jp % a.mb, k + c - 1)]
           others == UNION {{LuMaxVal(i), LuMaxIdx(i)} :
                              i \in 1..(a.size - 1)}
       IN  LuFinish(r,
                    [lu EXCEPT
                       !.max_val[0] = best.val,
                       !.max_idx[0] = best.idx,
                       !.ipiv[j] = LuBlockRel(jp, k),
                       !.info = IF sing THEN j + 1 ELSE @,
                       !.A = IF swap THEN cblas_zswap(@, X, Y, 1) ELSE @,
                       !.chosen[j] = jp,
                       !.colmax[j] = LuColMax(a, lu.A, j),
                       !.zero = IF LuColZero(a, lu.A, j) THEN @ \cup {j}
                                ELSE @,
                       !.infoW = IF sing THEN Append(@, j + 1) ELSE @],
                    others \cup {LuMaxVal(0), LuMaxIdx(0), LuInfo}
                      \cup (IF swap THEN Range(X) \cup Range(Y) ELSE {}),
                    {LuIpiv(j)}
                      \cup (IF a.size > 1
                            THEN {LuMaxVal(0), LuMaxIdx(0)} ELSE {})
                      \cup (IF sing THEN {LuInfo} ELSE {})
                      \cup (IF swap THEN Range(X) \cup Range(Y) ELSE {}))

(* decoding of a tile cell *)
LuTileOf(c) == c[2]
LuRowOf(a, c) == c[3] % a.mb
LuColOf(a, c) == c[3] \div a.mb

(* column scaling and trailing update of column j on the tiles of rank r  *)
(* (lines 109-153): the column is divided by the pivot when *info == 0,    *)
(* then row j times the column is subtracted from the rest of the panel    *)
LuUpdate(r) ==
    /\ LuReady(r, "update")
    /\ LET a == lu.args
           j == luat[r].j
           k == luat[r].k
           cols == (j + 1)..(k + LuKb(a, k) - 1)
           T == LuTiles(a, r)
           mine(c) == /\ LuTileOf(c) \in T
                      /\ LuRowOf(a, c) \in LuRowsBelow(a, LuTileOf(c), j)
           piv == lu.A[LuCell(a, 0, j, j)]
           colj(l, i) == IF lu.info = 0
                         THEN RDiv(lu.A[LuCell(a, l, i, j)], piv)
                         ELSE lu.A[LuCell(a, l, i, j)]
           X == {c \in DOMAIN lu.A : mine(c) /\ LuColOf(a, c) = j}
           C == {c \in DOMAIN lu.A : mine(c) /\ LuColOf(a, c) \in cols}
           Yrow == IF C = {} THEN {}
                   ELSE {LuCell(a, 0, j, c) : c \in cols}
       IN  LuFinish(r,
                    [lu EXCEPT !.A =
                       [c \in DOMAIN lu.A |->
                          IF c \in X
                          THEN colj(LuTileOf(c), LuRowOf(a, c))
                          ELSE IF c \in C
                          THEN RSub(lu.A[c],
                                    RMul(colj(LuTileOf(c), LuRowOf(a, c)),
                                         lu.A[LuCell(a, 0, j, LuColOf(a, c))]))
                          ELSE lu.A[c]]],
                    (IF T # {} THEN {LuInfo} ELSE {})
                      \cup (IF T # {} /\ lu.info = 0
                            THEN {LuCell(a, 0, j, j)} \cup X ELSE {})
                      \cup (IF C # {} THEN X \cup Yrow \cup C ELSE {}),
                    (IF lu.info = 0 THEN X ELSE {}) \cup C)

(* the barrier between the panel factorization and the right pivoting *)
LuSync(r) ==
    /\ LuReady(r, "sync")
    /\ LuFinish(r, lu, {}, {})

RECURSIVE LuSwapRows(_, _, _, _, _, _)
(* cblas_zswap of the elements in columns cols of rows rows[i] and        *)
(* ipiv[rows[i]] - 1, for i, i+1, ... in turn                              *)
LuSwapRows(a, M, piv, rows, cols, i) ==
    IF i > Len(rows) THEN M
    ELSE LuSwapRows(a,
                    cblas_zswap(M,
                                [c \in DOMAIN cols |->
                                   LuRowCell(a, rows[i], cols[c])],
                                [c \in DOMAIN cols |->
                                   LuRowCell(a, piv[rows[i]] - 1, cols[c])],
                                1),
                    piv, rows, cols, i + 1)

(* cells the swaps above touch *)
LuSwapCells(a, piv, rows, cols) ==
    UNION {{LuRowCell(a, rows[i], cols[c]),
            LuRowCell(a, piv[rows[i]] - 1, cols[c])} :
             i \in DOMAIN rows, c \in DOMAIN cols}

Upto(lo, hi) == [i \in 1..(hi - lo + 1) |-> lo + i - 1]

RECURSIVE LuDot(_, _, _, _, _, _)
(* sum over p = lo..hi of M[row g of the tile, p] * M[row p of tile 0, c] *)
LuDot(a, M, l, i, c, P) ==
    IF P = << >> THEN RZero
    ELSE LET s == LuDot(a, M, l, i, c, Tail(P))
             t == RMul(M[LuCell(a, l, i, Head(P))],
                       M[LuCell(a, 0, Head(P), c)])
         IN  RSub(s, RSub(RZero, t))

RECURSIVE LuTrsm(_, _, _, _, _)
(* cblas_ztrsm, left, lower, unit: rows k+1.. of the block right of the   *)
(* panel are reduced by the rows above them, top to bottom                 *)
LuTrsm(a, M, k, i, hi) ==
    IF i > hi THEN M
    ELSE LuTrsm(a,
                [c \in DOMAIN M |->
                   IF LuTileOf(c) = 0 /\ LuRowOf(a, c) = i
                      /\ LuColOf(a, c) > hi
                   THEN RSub(M[c], LuDot(a, M, 0, i, LuColOf(a, c),
                                         Upto(k, i - 1)))
                   ELSE M[c]],
                k, i + 1, hi)

(* variant: the offset is added to every pivot stored so far *)
LuAdjust_all(a, k, kb) == 0..(imin(a.m, k + kb) - 1)

(* indices i-1 for i = k+1 .. imin(A.m, k+kb) *)
LuAdjust(a, k, kb) == k..(imin(a.m, k + kb) - 1)

(* pivot adjustment, right pivoting and trsm of block k (lines 161-184) *)
LuRight(r) ==
    /\ LuReady(r, "right")
    /\ IF r # 0 THEN LuFinish(r, lu, {}, {})
       ELSE
       LET a == lu.args
           k == luat[r].k
           kb == LuKb(a, k)
           adj == LuAdjust(a, k, kb)
           piv == [i \in DOMAIN lu.ipiv |->
                     IF i \in adj THEN lu.ipiv[i] + k ELSE lu.ipiv[i]]
           rows == Upto(k, k + kb - 1)
           cols == Upto(k + kb, tile_nview(a, 0) - 1)
           swapped == LuSwapRows(a, lu.A, piv, rows, cols, 1)
           B == {LuCell(a, 0, i, c) : i \in Range(rows), c \in Range(cols)}
           L == IF B = {} THEN {}
                ELSE {LuCell(a, 0, x[1], x[2]) :
                        x \in {y \in Range(rows) \X Range(rows) :
                                 y[2] < y[1]}}
           touched == LuSwapCells(a, piv, rows, cols) \cup B
       IN  LuFinish(r,
                    [lu EXCEPT
                       !.ipiv = piv,
                       !.A = LuTrsm(a, swapped, k, k + 1, k + kb - 1),
                       !.adj = [i \in DOMAIN @ |->
                                  IF i \in adj THEN @[i] + 1 ELSE @[i]]],
                    {LuIpiv(i) : i \in adj \cup Range(rows)}
                      \cup touched \cup L,
                    {LuIpiv(i) : i \in adj} \cup touched)

(* gemm of block k on the tiles of rank r (lines 192-217): the part of    *)
(* the panel right of and below the block is reduced by the block column   *)
(* times the block row                                                     *)
LuGemm(r) ==
    /\ LuReady(r, "gemm")
    /\ LET a == lu.args
           k == luat[r].k
           kb == LuKb(a, k)
           T == LuTiles(a, r)
           P == Upto(k, k + kb - 1)
           C == {c \in DOMAIN lu.A :
                   /\ LuTileOf(c) \in T
                   /\ LuColOf(a, c) >= k + kb
                   /\ LuRowOf(a, c) \in
                        LuRowsBelow(a, LuTileOf(c), k + kb - 1)}
       IN  LuFinish(r,
                    [lu EXCEPT !.A =
                       [c \in DOMAIN lu.A |->
                          IF c \in C
                          THEN RSub(lu.A[c],
                                    LuDot(a, lu.A, LuTileOf(c), LuRowOf(a, c),
                                          LuColOf(a, c), P))
                          ELSE lu.A[c]]],
                    C \cup UNION {{LuCell(a, LuTileOf(c), LuRowOf(a, c), p),
                                   LuCell(a, 0, p, LuColOf(a, c))} :
                                    c \in C, p \in Range(P)},
                    C)

(* the rank that pivots the block column left of k: k % ib == rank *)
LuLeftOwner(a, k) == k % a.ib

(* blocks k = ib, 2*ib, ... below imin(A.m, A.n) *)
LuLeftBlocks(a) == {k \in 1..(LuMin(a) - 1) : k % a.ib = 0}

RECURSIVE LuLeftRun(_, _, _)
(* left pivoting of the blocks in K, in ascending order *)
LuLeftRun(a, M, K) ==
    IF K = {} THEN M
    ELSE LET k == CHOOSE x \in K : \A y \in K : x <= y
         IN  LuLeftRun(a,
                       LuSwapRows(a, M, lu.ipiv, Upto(k, LuMin(a) - 1),
                                  Upto(k - a.ib, k - 1), 1),
                       K \ {k})

(* left pivoting (lines 224-237), then the rank returns *)
LuLeft(r) ==
    /\ LuReady(r, "left")
    /\ LET a == lu.args
           K == {k \in LuLeftBlocks(a) : LuLeftOwner(a, k) = r}
           cells == UNION {LuSwapCells(a, lu.ipiv, Upto(k, LuMin(a) - 1),
                                       Upto(k - a.ib, k - 1)) : k \in K}
           read == cells \cup {LuIpiv(i) : i \in
                                 UNION {k..(LuMin(a) - 1) : k \in K}}
       IN  LuFinish(r,
                    [lu EXCEPT
                       !.A = LuLeftRun(a, @, K),
                       !.leftBy = [k \in DOMAIN @ |->
                                     IF k \in K THEN @[k] \cup {r}
                                     ELSE @[k]]],
                    read, cells)

(* the panel: element (g, c) is (p*g + q*c + s) mod (MaxVal + 1) *)
LuMatrix(a, p, q, s) ==
    [c \in {LuCell(a, l, i, cc) :
              l \in 0..(LuMt(a) - 1), i \in 0..(a.mb - 1),
              cc \in 0..(a.n - 1)} |->
       IF a.mb * LuTileOf(c) + LuRowOf(a, c) < a.m
       THEN <<(p * (a.mb * LuTileOf(c) + LuRowOf(a, c))
                 + q * LuColOf(a, c) + s) % (MaxVal + 1), 1>>
       ELSE RZero]

LuArgs ==
    {a \in [m : 1..MaxLuM, n : 1..MaxLuMb, mb : 1..MaxLuMb,
            ib : 1..MaxLuIb, size : 1..MaxSize] :
       a.n <= a.mb /\ a.mb <= a.m}

(* all ranks enter with *info = 0 *)
InitLu ==
    /\ InitIdle /\ NoCalls /\ NoSwp
    /\ \E a \in LuArgs : \E p, q, s \in 0..MaxVal :
         /\ lu = [pc |-> "run", args |-> a,
               A |-> LuMatrix(a, p, q, s),
               max_val |-> [r \in LuRanks(a) |-> RZero],
               max_idx |-> [r \in LuRanks(a) |-> 0],
               ipiv |-> [j \in 0..(LuMin(a) - 1) |-> 0],
               info |-> 0,
               calls |-> [r \in LuRanks(a) |-> 0],
               log |-> [r \in LuRanks(a) |->
                          [ep |-> -1, ph |-> "none", rd |-> {}, wr |-> {}]],
               chosen |-> [j \in 0..(LuMin(a) - 1) |-> -1],
               colmax |-> [j \in 0..(LuMin(a) - 1) |-> {}],
               zero |-> {},
               infoW |-> << >>,
               adj |-> [j \in 0..(LuMin(a) - 1) |-> 0],
               leftBy |-> [k \in LuLeftBlocks(a) |-> {}]]
         /\ luat = [r \in LuRanks(a) |-> LuAt("search", 0, 0)]

LuRank(r) ==
    \/ LuSearch(r) \/ LuReduce(r) \/ LuUpdate(r) \/ LuSync(r)
    \/ LuRight(r) \/ LuGemm(r) \/ LuLeft(r)
NextLu == \E r \in 0..(MaxSize - 1) : LuRank(r)
SpecLu == InitLu /\ [][NextLu]_vars
(* rank r goes on to the code after its phase *)
LuMove(r) ==
    /\ \E ph \in {"search", "reduce", "update", "sync", "right", "gemm",
                   "left"} : LuReady(r, ph)
    /\ luat' = [luat EXCEPT ![r] = LuNextAt(lu.args, @)]
(* every rank is a running thread: it runs its phase once it is past its  *)
(* barrier                                                                 *)
FairLu == SpecLu /\ \A r \in 0..(MaxSize - 1) : WF_luat(LuMove(r))

(* ======================= properties ======================= *)
Called == last.kind # "none"
LastLen == last.ed - last.st + 1
LastJ1 == T2J1(last.ed)
LastJ2 == T2J2(last.ed)

(* entries outside the band that may be nonzero *)
OutOfBandNZ ==
    {e \in Entries : ~InBand(e[1], e[2]) /\ A[AV(e[1], e[2])] = 1}

(* the last call belongs to a chase started on the band-confined matrix *)
InChase == chain \in {"t1", "t1t2"} /\ last.st >= 1 /\ ~fault

(* the bulge left inside the diagonal block of the window by type-1 *)
Bulge1 ==
    {e \in Entries :
        IF uplo = CoreBlasUpper
        THEN last.st + 1 <= e[2] /\ e[2] < e[1] /\ e[1] <= last.ed
        ELSE last.st + 1 <= e[1] /\ e[1] < e[2] /\ e[2] <= last.ed}
(* the bulge left in the next block by type-2 *)
Bulge2 ==
    {e \in Entries :
        IF uplo = CoreBlasUpper
        THEN /\ last.st + 1 <= e[1] /\ e[1] <= last.ed
             /\ LastJ1 <= e[2] /\ e[2] <= LastJ2
        ELSE /\ last.st + 1 <= e[2] /\ e[2] <= last.ed
             /\ LastJ1 <= e[1] /\ e[1] <= LastJ2}

(* C1 (as stated): after a type-1 call on a band-confined matrix and      *)
(* after the type-2 call that follows it, at most one entry outside the    *)
(* band may be nonzero.                                                    *)
C1_SingleBulge == InChase => Cardinality(OutOfBandNZ) <= 1

(* C1 (amended): after a type-1 call on a band-confined matrix every      *)
(* entry outside the band is exactly zero except the bulge triangle inside *)
(* rows and columns st+1..ed; after the following type-2 call the only     *)
(* further exceptions lie in rows st+1..ed, columns J1..J2 (transposed in  *)
(* the lower case).                                                        *)
C1_BulgeRegion ==
    InChase =>
      OutOfBandNZ \subseteq
        (Bulge1 \cup (IF chain = "t1t2" THEN Bulge2 ELSE {}))

C1_Witness ==
    /\ InChase /\ chain = "t1t2"
    /\ Bulge1 \cap OutOfBandNZ # {}
    /\ Bulge2 \cap OutOfBandNZ # {}

(* C2: every band entry a call zeroes is not written again by that call   *)
(* and is exactly zero on return; for n=4, nb=2, lower, st=1, ed=2 the     *)
(* entries (2,0) and (3,0) are exactly zero after type-1.                  *)
C2_ZeroedStayZero ==
    (Called /\ ~fault) =>
      /\ Log(last).rewritten = {}
      /\ \A o \in Log(last).zeroed : o \in DOMAIN A => A[o] = 0
      /\ (n = 4 /\ nb = 2 /\ uplo = CoreBlasLower /\ chain = "t1"
          /\ last.st = 1 /\ last.ed = 2)
         => (A[AL(2, 0)] = 0 /\ A[AL(3, 0)] = 0)

C2_Witness ==
    /\ n = 4 /\ nb = 2 /\ uplo = CoreBlasLower /\ chain = "t1" /\ ~fault
    /\ last.st = 1 /\ last.ed = 2
    /\ AL(2, 0) \in Log(last).zeroed

(* C3: the reflector the chained type-2 call applies first is the second  *)
(* reflector type-1 generated for the window: same arrays, same vpos and   *)
(* taupos, same side, same conjugation of tau, and the slots still hold    *)
(* what type-1 wrote there.                                                *)
C3_Chaining ==
    (chain = "t1t2" /\ ~fault /\ Len(Ops(last)) > 0) =>
      LET t1 == Type1Ops(last.st, last.ed, last.sweep)
          g  == t1[7]
          x  == t1[8]
          d  == Ops(last)[1]
          R  == [VQ |-> VQ, TAUQ |-> TAUQ, VP |-> VP, TAUP |-> TAUP]
      IN  /\ d.k = "larfx" /\ g.k = "larfg" /\ x.k = "larfx"
          /\ d.arr = (IF uplo = CoreBlasUpper THEN "VQ" ELSE "VP")
          /\ d.tau = (IF uplo = CoreBlasUpper THEN "TAUQ" ELSE "TAUP")
          /\ d.arr = x.arr /\ d.tau = x.tau
          /\ d.arr = g.arr /\ d.tau = g.tau
          /\ d.idx = x.idx /\ d.idx + 1 = g.idx
          /\ d.tauidx = x.tauidx /\ d.tauidx = g.tauidx
          /\ d.side = x.side /\ d.cj = x.cj
          /\ LarfxLv(d) = LastLen
          /\ R[d.arr][d.idx] = VOne
          /\ \A i \in 1..(LastLen - 1) :
                R[d.arr][d.idx + i] = <<last.sweep, last.st>>
          /\ R[d.tau][d.tauidx] = <<last.sweep, last.st>>

C3_Witness ==
    /\ chain = "t1t2" /\ ~fault /\ Len(Ops(last)) > 1
    /\ wantz = 0 /\ LastLen >= 2 /\ last.sweep >= 1

(* offsets of the band buffer the last call reads or writes *)
LastAccA == AccA(Log(last))
(* <<array, index>> pairs of the reflector store the last call accesses *)
LastAccV == AccV(Log(last))

(* C4 (as stated): with st and ed in [0, n), st <= ed, len <= nb and      *)
(* lda >= 3*nb+1 every band-buffer offset a call accesses is in            *)
(* [0, lda*n).                                                             *)
C4_AllInside ==
    Called => \A o \in LastAccA : 0 <= o /\ o < lda * n

(* C4 (amended): the same, provided st >= 1 for a type-1 call in the      *)
(* lower case (its column st-1 must exist).                                *)
C4_InsideWhenColumnExists ==
    (Called /\ ~(last.kind = "type1" /\ uplo = CoreBlasLower /\ last.st = 0))
      => \A o \in LastAccA : 0 <= o /\ o < lda * n

C4_Witness ==
    /\ chain = "t1t2" /\ uplo = CoreBlasLower /\ last.st = 1
    /\ LastLen = nb /\ nb >= 2 /\ LastJ2 = n - 1 /\ lda > 3 * nb + 1
    /\ Cardinality(LastAccA) > 1

(* C5: in values-only mode every reflector-store index a call uses is     *)
(* ((sweep+1) mod 2)*n + position with position in [0, n), hence inside a  *)
(* buffer of 2*n elements.                                                 *)
C5_PingPongRange ==
    (Called /\ wantz = 0) =>
      \A e \in LastAccV :
        /\ \E p \in 0..(n - 1) : e[2] = ((last.sweep + 1) % 2) * n + p
        /\ 0 <= e[2] /\ e[2] < 2 * n

C5_Witness ==
    /\ wantz = 0 /\ last.kind = "type2" /\ last.sweep = 0
    /\ Len(Ops(last)) > 1 /\ LastJ2 = n - 1
    /\ <<"VP", 2 * n - 1>> \in LastAccV \/ <<"VQ", 2 * n - 1>> \in LastAccV

(* C6: in values-only mode arrays of n elements suffice: every            *)
(* reflector-store index a call uses is less than n.                       *)
C6_DimensionN ==
    (Called /\ wantz = 0) => \A e \in LastAccV : e[2] < n

(* C8: within one type-2 call in values-only mode the indices written for *)
(* the new reflector (base+J1 .. base+J2) are disjoint from the indices    *)
(* (base+st .. base+ed) of the reflector it applies first, and the two tau *)
(* indices differ.                                                         *)
C8_NoAliasInSweep ==
    (last.kind = "type2" /\ wantz = 0 /\ Len(Ops(last)) > 1) =>
      LET ops  == Ops(last)
          base == ((last.sweep + 1) % 2) * n
          rd   == LogOf(<<ops[1]>>).rdV
          wr   == LogOf(SubSeq(ops, 2, Len(ops))).wrV
          vec  == {"VQ", "VP"}
          rdI  == {e[2] : e \in {f \in rd : f[1] \in vec}}
          wrI  == {e[2] : e \in {f \in wr : f[1] \in vec}}
          rdT  == {e[2] : e \in {f \in rd : f[1] \notin vec}}
          wrT  == {e[2] : e \in {f \in wr : f[1] \notin vec}}
      IN  /\ rdI = (base + last.st)..(base + last.ed)
          /\ wrI = (base + LastJ1)..(base + LastJ2)
          /\ rdI \cap wrI = {}
          /\ rdT \cap wrT = {}
          /\ Cardinality(rdT) = 1 /\ Cardinality(wrT) = 1

C8_Witness ==
    /\ chain = "t1t2" /\ wantz = 0 /\ Len(Ops(last)) > 1
    /\ LastLen >= 2

(* C7: in values-only mode the slot of (s+2, p) is the slot of (s, p),    *)
(* and a slot of sweep s+1 is never a slot of sweep s.                     *)
C7_ReuseEveryTwoSweeps ==
    wantz = 0 =>
      \A i, j \in DOMAIN slots :
        /\ (slots[j].sweep = slots[i].sweep + 2 /\ slots[j].col = slots[i].col)
             => (slots[j].vpos = slots[i].vpos
                 /\ slots[j].taupos = slots[i].taupos)
        /\ slots[j].sweep = slots[i].sweep + 1
             => (slots[j].vpos # slots[i].vpos
                 /\ slots[j].taupos # slots[i].taupos)

C7_Witness ==
    /\ wantz = 0 /\ Len(slots) = 2
    /\ slots[1].sweep = slots[2].sweep + 2
    /\ slots[1].col = slots[2].col /\ slots[1].col = n - 1
    /\ slots[1].vpos = slots[2].vpos

(* the state after running call a and then call b on the initial state *)
SeqResult(a, b) ==
    LET S == Run(Run(Machine(InitBand, InitV, InitV, InitV, InitV), Ops(a)),
                 Ops(b))
    IN  <<S.A, S.R.VQ, S.R.TAUQ, S.R.VP, S.R.TAUP>>

ParDone == par.pc1 = Len(Ops(par.c1)) /\ par.pc2 = Len(Ops(par.c2))

(* C10: two calls with disjoint windows access disjoint band elements and *)
(* (values-only) disjoint reflector-store indices, and every interleaving  *)
(* of their statements ends in the state of running them one after the     *)
(* other.                                                                  *)
C10_DisjointCommute ==
    /\ AccA(Log(par.c1)) \cap AccA(Log(par.c2)) = {}
    /\ {e[2] : e \in AccV(Log(par.c1))} \cap {e[2] : e \in AccV(Log(par.c2))}
         = {}
    /\ ParDone =>
         /\ <<A, VQ, TAUQ, VP, TAUP>> = SeqResult(par.c1, par.c2)
         /\ <<A, VQ, TAUQ, VP, TAUP>> = SeqResult(par.c2, par.c1)

C10_Witness ==
    /\ ParDone
    /\ par.c1.kind = "type1" /\ par.c2.kind = "type2"
    /\ par.c1.st = T2J2(par.c2.ed) + 1
    /\ par.c1.ed > par.c1.st
    /\ Len(Ops(par.c2)) > 1
    /\ par.c1.sweep = par.c2.sweep

(* every reflector element an operation reads was written by an earlier    *)
(* operation of the same sequence                                          *)
ReadsProduced(ops) ==
    \A i \in 1..Len(ops) :
      LogOf(<<ops[i]>>).rdV \subseteq LogOf(SubSeq(ops, 1, i - 1)).wrV

(* C11: type-1 (upper) runs, in this order: VP(vpos) = 1 and the copy and *)
(* zeroing of the len-1 entries of row st-1 in columns st+1..ed; the       *)
(* generation of TAUP on the pivot (st-1, st); the right application to    *)
(* the len x len block at (st, st); VQ(vpos) = 1, the copy and zeroing of  *)
(* column st below the diagonal and the generation of TAUQ on (st, st);    *)
(* the left application to the len x (len-1) block at columns st+1..ed.    *)
(* No operation reads a reflector element before it has been produced.     *)
C11_Type1UpperOrder ==
    (last.kind = "type1" /\ uplo = CoreBlasUpper) =>
      LET ops == Ops(last)
          st  == last.st
          ed  == last.ed
          len == LastLen
          vp  == VTpos(last.sweep, st).vpos
          tp  == VTpos(last.sweep, st).taupos
          vec(a) == {<<a, j>> : j \in vp..(vp + len - 1)}
      IN  /\ Len(ops) = 8
          /\ ops[1].k = "set1" /\ ops[1].arr = "VP" /\ ops[1].idx = vp
          /\ ops[2].k = "copyzero" /\ ops[2].arr = "VP" /\ ops[2].idx = vp + 1
          /\ Len(ops[2].cells) = len - 1
          /\ \A i \in 1..(len - 1) :
               EntryOf(ops[2].cells[i]) = <<st - 1, st + i>>
          /\ ops[3].k = "larfg" /\ ops[3].tau = "TAUP" /\ ops[3].tauidx = tp
          /\ ops[3].arr = "VP" /\ EntryOf(ops[3].alpha) = <<st - 1, st>>
          /\ ops[4].k = "larfx" /\ ops[4].side = "R"
          /\ ops[4].m = len /\ ops[4].nn = len
          /\ EntriesOf(OpCells(ops[4])) = (st..ed) \X (st..ed)
          /\ LogOf(<<ops[4]>>).rdV = vec("VP") \cup {<<"TAUP", tp>>}
          /\ ops[5].k = "set1" /\ ops[5].arr = "VQ" /\ ops[5].idx = vp
          /\ ops[6].k = "copyzero" /\ ops[6].arr = "VQ" /\ ops[6].idx = vp + 1
          /\ Len(ops[6].cells) = len - 1
          /\ \A i \in 1..(len - 1) :
               EntryOf(ops[6].cells[i]) = <<st + i, st>>
          /\ ops[7].k = "larfg" /\ ops[7].tau = "TAUQ" /\ ops[7].tauidx = tp
          /\ ops[7].arr = "VQ" /\ EntryOf(ops[7].alpha) = <<st, st>>
          /\ ops[8].k = "larfx" /\ ops[8].side = "L"
          /\ ops[8].m = len /\ ops[8].nn = len - 1
          /\ EntriesOf(OpCells(ops[8])) = (st..ed) \X ((st + 1)..ed)
          /\ LogOf(<<ops[8]>>).rdV = vec("VQ") \cup {<<"TAUQ", tp>>}
          /\ ReadsProduced(ops)

C11_Witness ==
    /\ chain = "t1" /\ uplo = CoreBlasUpper /\ ~fault
    /\ last.st >= 1 /\ LastLen >= 3
    /\ VQ[VTpos(last.sweep, last.st).vpos + 2] = <<last.sweep, last.st>>
    /\ TAUP[VTpos(last.sweep, last.st).taupos] = <<last.sweep, last.st>>

Transposed(E) == {<<e[2], e[1]>> : e \in E}
OtherV(a) == IF a = "VP" THEN "VQ" ELSE "VP"
OtherTau(t) == IF t = "TAUP" THEN "TAUQ" ELSE "TAUP"
OtherSide(sd) == IF sd = "L" THEN "R" ELSE "L"

(* statement l of the lower case mirrors statement u of the upper case *)
MirrorOf(u, l) ==
    /\ l.k = u.k /\ l.arr = OtherV(u.arr)
    /\ l.idx = u.idx /\ l.len = u.len
    /\ l.ents = Transposed(u.ents)
    /\ Len(l.seq) = Len(u.seq)
    /\ \A i \in 1..Len(u.seq) : l.seq[i] = <<u.seq[i][2], u.seq[i][1]>>
    /\ u.k \in {"larfg", "larfx"} =>
         (l.tau = OtherTau(u.tau) /\ l.tauidx = u.tauidx)
    /\ u.k = "larfx" =>
         (l.side = OtherSide(u.side) /\ l.m = u.nn /\ l.nn = u.m)

(* C12: for type-1 and type-2 the lower case performs, statement by       *)
(* statement, what the upper case performs on the transposed entries, with *)
(* left/right, VP/VQ and TAUP/TAUQ exchanged and the same vpos and taupos. *)
C12_LowerMirrorsUpper ==
    chain = "both" =>
      /\ Len(mir.lo) = Len(mir.up)
      /\ \A i \in 1..Len(mir.up) : MirrorOf(mir.up[i], mir.lo[i])

C12_Witness ==
    /\ chain = "both" /\ mir.call.kind = "type2" /\ Len(mir.up) = 5
    /\ mir.call.ed > mir.call.st
    /\ mir.up[1].side = "L" /\ mir.lo[1].side = "R"
    /\ Cardinality(mir.lo[5].ents) >= 2

(* C13: after a type-1 call both reflector pairs are fully written and    *)
(* nothing else in the reflector store changed: the call writes exactly    *)
(* VP[vpos..vpos+len-1], VQ[vpos..vpos+len-1], TAUP[taupos] and            *)
(* TAUQ[taupos], with VP[vpos] = VQ[vpos] = 1, and every other element of  *)
(* VP, VQ, TAUP and TAUQ keeps its value.                                  *)
C13_Type1StoreFrame ==
    (chain = "t1" /\ ~fault) =>
      LET vp == VTpos(last.sweep, last.st).vpos
          tp == VTpos(last.sweep, last.st).taupos
          W  == vp..(vp + LastLen - 1)
      IN  /\ Log(last).wrV =
               {<<a, j>> : a \in {"VP", "VQ"}, j \in W}
               \cup {<<"TAUP", tp>>, <<"TAUQ", tp>>}
          /\ W \subseteq DOMAIN VP /\ tp \in DOMAIN TAUP
          /\ VP[vp] = VOne /\ VQ[vp] = VOne
          /\ \A j \in W : VP[j] # VInit /\ VQ[j] # VInit
          /\ TAUP[tp] # VInit /\ TAUQ[tp] # VInit
          /\ \A j \in DOMAIN VP \ W : VP[j] = VInit /\ VQ[j] = VInit
          /\ \A j \in DOMAIN TAUP \ {tp} : TAUP[j] = VInit /\ TAUQ[j] = VInit

C13_Witness ==
    /\ chain = "t1" /\ ~fault /\ uplo = CoreBlasLower
    /\ LastLen >= 2 /\ LastLen = nb /\ last.ed = n - 1 /\ last.sweep = 0
    /\ VP[VTpos(last.sweep, last.st).vpos + LastLen - 1]
         = <<last.sweep, last.st>>

(* the next block of the window of the last call, in logical coordinates *)
NextBlock ==
    LET J1 == last.ed + 1
        J2 == imin(last.ed + nb, n - 1)
    IN  IF uplo = CoreBlasUpper
        THEN (last.st..last.ed) \X (J1..J2)
        ELSE (J1..J2) \X (last.st..last.ed)

(* C14: a type-2 call modifies no band entry outside rows st..ed, columns *)
(* J1..J2 (upper; transposed for lower), J1 = ed+1, J2 = min(ed+nb, n-1),  *)
(* and when that rectangle is not empty its first statement applies the    *)
(* stored reflector to the whole (ed-st+1) x (J2-J1+1) rectangle.          *)
C14_Type2BandFrame ==
    (last.kind = "type2" /\ ~fault) =>
      LET ops == Ops(last)
          lp  == imin(last.ed + nb, n - 1) - (last.ed + 1) + 1
      IN  /\ EntriesOf(Log(last).wrA) \subseteq NextBlock
          /\ chain = "t2" =>
               \A o \in DOMAIN A :
                 EntryOf(o) \notin NextBlock => A[o] = InitBand[o]
          /\ NextBlock # {} =>
               /\ Len(ops) >= 1 /\ ops[1].k = "larfx"
               /\ EntriesOf(OpCells(ops[1])) = NextBlock
               /\ Cardinality(OpCells(ops[1])) = LastLen * lp
               /\ ops[1].m = (IF uplo = CoreBlasUpper THEN LastLen ELSE lp)
               /\ ops[1].nn = (IF uplo = CoreBlasUpper THEN lp ELSE LastLen)

C14_Witness ==
    /\ chain = "t2" /\ ~fault /\ uplo = CoreBlasUpper
    /\ LastLen >= 2 /\ Cardinality(NextBlock) >= 4
    /\ \E o \in DOMAIN A : EntryOf(o) \in NextBlock /\ A[o] # InitBand[o]
    /\ \E o \in DOMAIN A : EntryOf(o) \in NextBlock /\ A[o] = 0

StoreUntouched ==
    VQ = InitV /\ TAUQ = InitV /\ VP = InitV /\ TAUP = InitV

(* C15: with len' = J2-J1+1, a type-2 call with len' <= 0 (ed >= n-1)     *)
(* changes neither the band buffer nor the reflector store; with len' = 1  *)
(* it performs only the deferred application and writes nothing to VQ, VP, *)
(* TAUQ or TAUP; only with len' > 1 does it generate and store a new       *)
(* reflector.                                                              *)
C15_Type2Guards ==
    last.kind = "type2" =>
      LET ops == Ops(last)
          L   == Log(last)
          lp  == imin(last.ed + nb, n - 1) - (last.ed + 1) + 1
          gen == {i \in 1..Len(ops) : ops[i].k = "larfg"}
      IN  /\ (lp <= 0) <=> (last.ed >= n - 1)
          /\ lp <= 0 =>
               /\ ops = << >> /\ AccA(L) = {} /\ AccV(L) = {}
               /\ (chain = "t2" /\ ~fault) => (A = InitBand /\ StoreUntouched)
          /\ lp = 1 =>
               /\ Len(ops) = 1 /\ ops[1].k = "larfx" /\ L.wrV = {}
               /\ (chain = "t2" /\ ~fault) => StoreUntouched
          /\ (gen # {} \/ L.wrV # {}) <=> lp > 1
          /\ lp > 1 =>
               /\ Cardinality(gen) = 1
               /\ Cardinality(L.wrV) = lp + 1

C15_Witness ==
    /\ chain = "t2" /\ ~fault /\ last.ed = n - 2 /\ LastLen >= 2
    /\ Len(Ops(last)) = 1 /\ Cardinality(Log(last).wrA) = LastLen
    /\ StoreUntouched

(* the last call is an upper type-2 call that generates a new reflector *)
T2UpperGenerates ==
    /\ last.kind = "type2" /\ uplo = CoreBlasUpper
    /\ imin(last.ed + nb, n - 1) - (last.ed + 1) + 1 > 1

(* C16 (as stated): in type-2 step 2 (upper, len' > 1) the len'-1 entries *)
(* copied into the new VP vector and zeroed in A are entries of row        *)
(* J1 = ed+1; the pair is stored in VP/TAUP and the reflector is applied   *)
(* from the right to the remaining (len-1) x len' sub-block.               *)
C16_RemovesRowJ1 ==
    T2UpperGenerates =>
      LET ops == Ops(last)
          lp  == imin(last.ed + nb, n - 1) - (last.ed + 1) + 1
      IN  /\ ops[3].k = "copyzero" /\ ops[3].arr = "VP"
          /\ Len(ops[3].cells) = lp - 1
          /\ \A i \in 1..(lp - 1) : EntryOf(ops[3].cells[i])[1] = last.ed + 1
          /\ ops[4].k = "larfg" /\ ops[4].arr = "VP" /\ ops[4].tau = "TAUP"
          /\ ops[5].k = "larfx" /\ ops[5].side = "R"
          /\ ops[5].m = LastLen - 1 /\ ops[5].nn = lp

(* C16 (amended): the row removed is row st, the top row of the bulge     *)
(* step 1 created: the entries (st, J1+1) .. (st, J2) are copied           *)
(* (conjugated) into VP at the slot keyed by J1 and zeroed, the pivot is   *)
(* (st, J1), the pair is stored in VP/TAUP, and the reflector is applied   *)
(* from the right to rows st+1..ed, columns J1..J2.                        *)
C16_RemovesRowSt ==
    T2UpperGenerates =>
      LET ops == Ops(last)
          J1  == last.ed + 1
          J2  == imin(last.ed + nb, n - 1)
          lp  == J2 - J1 + 1
          vp  == VTpos(last.sweep, J1).vpos
          tp  == VTpos(last.sweep, J1).taupos
      IN  /\ Len(ops) = 5
          /\ ops[2].k = "set1" /\ ops[2].arr = "VP" /\ ops[2].idx = vp
          /\ ops[3].k = "copyzero" /\ ops[3].arr = "VP" /\ ops[3].cj
          /\ ops[3].idx = vp + 1 /\ Len(ops[3].cells) = lp - 1
          /\ \A i \in 1..(lp - 1) :
               EntryOf(ops[3].cells[i]) = <<last.st, J1 + i>>
          /\ ops[4].k = "larfg" /\ ops[4].arr = "VP" /\ ops[4].tau = "TAUP"
          /\ ops[4].tauidx = tp /\ ops[4].len = lp
          /\ EntryOf(ops[4].alpha) = <<last.st, J1>>
          /\ ops[5].k = "larfx" /\ ops[5].side = "R"
          /\ ops[5].arr = "VP" /\ ops[5].tau = "TAUP"
          /\ ops[5].m = LastLen - 1 /\ ops[5].nn = lp
          /\ EntriesOf(OpCells(ops[5])) =
               ((last.st + 1)..last.ed) \X (J1..J2)
          /\ ~fault =>
               \A i \in 1..(lp - 1) : A[AU(last.st, J1 + i)] = 0

C16_Witness ==
    /\ T2UpperGenerates /\ chain = "t1t2" /\ ~fault
    /\ LastLen >= 2 /\ last.ed + 3 <= n - 1 /\ nb >= 3
    /\ VP[VTpos(last.sweep, last.ed + 1).vpos + 2]
         = <<last.sweep, last.ed + 1>>
    /\ A[AU(last.st, last.ed + 3)] = 0

(* C17: for every window with len <= nb each reflector application of a   *)
(* type-1 or type-2 call needs a work vector (one element per column of    *)
(* the target block for a left application, one per row for a right one)   *)
(* of at most nb elements.                                                 *)
C17_WorkWithinNb ==
    Called =>
      /\ Log(last).work <= nb
      /\ \A i \in 1..Len(Ops(last)) :
           LET op == Ops(last)[i]
           IN  op.k = "larfx" =>
                 (IF op.side = "L" THEN op.nn ELSE op.m) <= nb

C17_Witness ==
    /\ chain = "t1t2" /\ ~fault /\ nb >= 3 /\ LastLen = nb
    /\ Log(last).work = nb
    /\ Ops(last)[1].side = "L" /\ Ops(last)[1].nn = nb

(* C18: with the arrays and arguments of the README example (n = 4,       *)
(* nb = 2, lda = 3*nb+1, VP, VQ, TAUP, TAUQ of n elements, work of nb      *)
(* elements, uplo = upper, st = 0, ed = 4, sweep = 1, wantz = 0) every     *)
(* read and write of the type-1 call stays inside the arrays.              *)
C18_ExampleInBounds ==
    (last = ReadmeCall /\ n = 4 /\ nb = 2 /\ uplo = CoreBlasUpper
     /\ lda = 3 * nb + 1 /\ wantz = 0) =>
      /\ \A o \in LastAccA : 0 <= o /\ o < lda * n
      /\ \A e \in LastAccV : 0 <= e[2] /\ e[2] < n
      /\ Log(last).work <= nb
      /\ ~fault

(* the i-th parameter of coreblas_ztradd(uplo, transa, m, n, alpha, A,     *)
(* lda, beta, B, ldb) has a value the routine rejects                      *)
TraddIllegal(a, i) ==
    CASE i = 1 -> a.uplo \notin {CoreBlasUpper, CoreBlasLower}
      [] i = 2 -> a.transa \notin {"NoTrans", "Trans", "ConjTrans"}
      [] i = 3 -> a.m < 0
      [] i = 4 -> a.n < 0
      [] i = 6 -> a.A = "NULL"
      [] i = 7 -> LET l == IF a.transa = "NoTrans" THEN a.m ELSE a.n
                  IN  l > 0 /\ a.lda < l
      [] i = 9 -> a.B = "NULL"
      [] i = 10 -> a.m > 0 /\ a.ldb < a.m
      [] OTHER -> FALSE

C20_Lda1Contract ==
    (/\ tsqrt.done
     /\ tsqrt.args.m >= 0 /\ tsqrt.args.n >= 0 /\ tsqrt.args.ib >= 0
     /\ tsqrt.args.null # "A1"
     /\ tsqrt.args.lda1 < imax(1, tsqrt.args.n)) =>
      /\ tsqrt.out.ret = -5
      /\ tsqrt.out.wr = {}
      /\ ~tsqrt.out.oob
      /\ ~fault

(* reflector applications of the last call *)
LastLarfx == {k \in 1..Len(Ops(last)) : Ops(last)[k].k = "larfx"}

(* C26: a band sub-block handed to a reflector application with leading   *)
(* dimension LDX = lda - 1 addresses the logical entries exactly: for a    *)
(* block whose first element is view element (r0, c0), block element       *)
(* (i, j), at start + i + j*LDX, is view element (r0+i, c0+j), in the      *)
(* upper view AU and in the lower view AL; every application of a kernel   *)
(* call passes LDX and so touches exactly the entries of its block.        *)
C26_LdxAddressing ==
    /\ \A e \in Entries : \A i \in 0..nb, j \in 0..nb :
         /\ AU(e[1], e[2]) + i + j * LDX = AU(e[1] + i, e[2] + j)
         /\ AL(e[1], e[2]) + i + j * LDX = AL(e[1] + i, e[2] + j)
    /\ Called =>
         \A k \in LastLarfx :
           LET op == Ops(last)[k]
               e  == EntryOf(op.c)
           IN  /\ AV(e[1], e[2]) = op.c
               /\ op.ldc = lda - 1
               /\ \A i \in 0..(op.m - 1), j \in 0..(op.nn - 1) :
                    op.c + i + j * op.ldc = AV(e[1] + i, e[2] + j)

(* a call applied a reflector to a block of at least two rows and columns *)
C26_Witness ==
    /\ Called /\ ~fault /\ LastLen >= 2
    /\ \E k \in LastLarfx :
         /\ Ops(last)[k].m >= 2 /\ Ops(last)[k].nn >= 2
         /\ BlockCells(Ops(last)[k].c, Ops(last)[k].m, Ops(last)[k].nn,
                       Ops(last)[k].ldc) \subseteq Log(last).wrA

RECURSIVE QrWidths(_)
QrWidths(s) == IF s = << >> THEN 0 ELSE s[1][2] + QrWidths(Tail(s))

(* block starts below k *)
QrStarts(k, ib) == {i \in 0..(k - 1) : i % ib = 0}

(* the visits made so far are in loop order, each start at most once *)
QrOrdered ==
    \A p, q \in DOMAIN qr.visited :
      p < q => IF QrForward(qr.args)
               THEN qr.visited[p][1] < qr.visited[q][1]
               ELSE qr.visited[p][1] > qr.visited[q][1]

QrInScope ==
    /\ qr.pc \in {"loop", "done"}
    /\ qr.ret = CoreBlasSuccess /\ qr.args.ib >= 1 /\ qr.args.k >= 1

(* C27: for ib >= 1 and k >= 1 the block loop of coreblas_zunmqr and of   *)
(* coreblas_ztsmqr visits exactly the starts 0, ib, 2*ib, ... below k,     *)
(* each once, with width kb = min(ib, k-i), the widths summing to k, in    *)
(* ascending order when (Left and ConjTrans) or (Right and NoTrans) and    *)
(* descending otherwise, and then the routine returns.                     *)
C27_BlockLoop ==
    /\ [](QrInScope =>
            /\ QrOrdered
            /\ QrForward(qr.args) <=>
                 \/ qr.args.side = "Left" /\ qr.args.trans = "ConjTrans"
                 \/ qr.args.side = "Right" /\ qr.args.trans = "NoTrans"
            /\ \A p \in DOMAIN qr.visited :
                 /\ qr.visited[p][1] \in QrStarts(qr.args.k, qr.args.ib)
                 /\ qr.visited[p][2] =
                      imin(qr.args.ib, qr.args.k - qr.visited[p][1])
            /\ qr.pc = "done" =>
                 /\ {v[1] : v \in Range(qr.visited)} =
                      QrStarts(qr.args.k, qr.args.ib)
                 /\ Len(qr.visited) =
                      Cardinality(QrStarts(qr.args.k, qr.args.ib))
                 /\ QrWidths(qr.visited) = qr.args.k)
    /\ ((qr.pc = "loop" /\ qr.args.ib >= 1 /\ qr.args.k >= 1)
          ~> (qr.pc = "done"))

(* a backward loop over three blocks, the first visited one narrower *)
C27_Witness ==
    /\ qr.pc = "done" /\ qr.ret = CoreBlasSuccess
    /\ ~QrForward(qr.args)
    /\ Len(qr.visited) = 3
    /\ qr.visited[1][2] < qr.args.ib
    /\ qr.visited[3][1] = 0

Reverse(s) == [i \in 1..Len(s) |-> s[Len(s) + 1 - i]]

(* C28: coreblas_zgeswp with incx = 1 followed by the same call with       *)
(* incx = -1 (same colrow, k1 <= k2, ipiv) performs the same swaps in the  *)
(* opposite order and leaves every element of A with its original value.   *)
C28_ReverseUndoes ==
    swp.calls = <<1, -1>> =>
      /\ swp.swaps[2] = Reverse(swp.swaps[1])
      /\ swp.A = swp.A0

(* three swaps that moved elements across tiles, then undone *)
C28_Witness ==
    /\ swp.calls = <<1, -1>>
    /\ Len(swp.swaps[1]) = 3
    /\ swp.swaps[1][1] # swp.swaps[1][2]
    /\ SwpRun(swp.args, [A |-> swp.A0, swaps |-> << >>],
              SwpOrder(swp.args, 1), 1).A # swp.A0
    /\ \E c \in DOMAIN swp.A0 : c[1] > 0
    /\ swp.A = swp.A0

(* a pair of legal storev and trans values the routine does not implement *)
PemvUnsupported(a) ==
    \/ a.storev = "Columnwise" /\ a.trans = "NoTrans"
    \/ a.storev = "Rowwise" /\ a.trans \in {"Trans", "ConjTrans"}

(* C29: coreblas_zpemv rejects every unsupported pair (Columnwise with     *)
(* NoTrans, Rowwise with Trans or ConjTrans) in its argument checks: it    *)
(* returns -2 and writes neither Y nor work, so no call ever reaches the   *)
(* two "not implemented" branches that return -1.                          *)
C29_UnsupportedRejected ==
    pemv.done =>
      /\ PemvUnsupported(pemv.args) =>
           /\ pemv.out.ret = -2 /\ pemv.out.at = "check"
           /\ pemv.out.wrY = {} /\ pemv.out.wrWork = {}
      /\ pemv.out.at \notin {"Columnwise/NoTrans not implemented",
                             "Rowwise/Trans not implemented"}
      /\ pemv.out.ret = -1 => pemv.args.trans \notin Transposes

(* an unsupported pair with otherwise legal arguments and work to do *)
C29_Witness ==
    /\ pemv.done /\ PemvUnsupported(pemv.args)
    /\ pemv.args.storev = "Rowwise" /\ pemv.args.trans = "ConjTrans"
    /\ pemv.args.m = 2 /\ pemv.args.n = 2 /\ pemv.args.l = 2
    /\ pemv.args.lda = 2 /\ pemv.args.incx = 1 /\ pemv.args.incy = 1
    /\ pemv.args.alpha = 1
    /\ pemv.out.ret = -2

LuRunning == lu.pc = "run"
LuAllDone ==
    LuRunning /\ \A r \in LuRanks(lu.args) : luat[r].ph = "done"
LuTile0(cells) == {c \in cells : c[1] = "A" /\ c[2] = 0}

(* C21: between two consecutive barriers of coreblas_zgetrf no location   *)
(* (max_val[], max_idx[], ipiv[], *info, a tile element) is written by one *)
(* rank and read or written by another; the max reduction, the pivot swap, *)
(* the writes of ipiv and *info (and the right pivoting and trsm) are done *)
(* by rank 0 while the other ranks do nothing but wait at the barrier.     *)
C21_NoDataRace ==
    LuRunning =>
      /\ \A r, q \in LuRanks(lu.args) :
           r # q /\ lu.log[r].ep = lu.log[q].ep =>
             lu.log[r].wr \cap (lu.log[q].rd \cup lu.log[q].wr) = {}
      /\ \A r \in LuRanks(lu.args) \ {0} :
           /\ lu.log[r].ph \in {"reduce", "right"} =>
                lu.log[r].rd = {} /\ lu.log[r].wr = {}
           /\ \A c \in lu.log[r].wr :
                c[1] = "A" \/ c \in {LuMaxVal(r), LuMaxIdx(r)}

(* two ranks updated their tiles in the same interval, rank 1 reading row *)
(* j of tile 0 while rank 0 wrote the rows below it                        *)
C21_Witness ==
    /\ LuRunning /\ lu.args.size = 2
    /\ lu.log[0].ep = lu.log[1].ep
    /\ lu.log[0].ph = "update" /\ lu.log[1].ph = "update"
    /\ LuTile0(lu.log[0].wr) # {}
    /\ lu.log[1].wr # {}
    /\ LuTile0(lu.log[1].rd) # {}

RECURSIVE LuCallsBefore(_, _)
(* coreblas_barrier_wait calls of the blocks before block k *)
LuCallsBefore(a, k) ==
    IF k = 0 THEN 0
    ELSE LuCallsBefore(a, k - a.ib) + 3 * LuKb(a, k - a.ib) + 3

(* calls made on reaching position p *)
LuCallsAt(a, p) ==
    CASE p.ph = "search" -> LuCallsBefore(a, p.k) + 3 * (p.j - p.k)
      [] p.ph = "reduce" -> LuCallsBefore(a, p.k) + 3 * (p.j - p.k) + 1
      [] p.ph = "update" -> LuCallsBefore(a, p.k) + 3 * (p.j - p.k) + 2
      [] p.ph = "sync" -> LuCallsBefore(a, p.k) + 3 * LuKb(a, p.k)
      [] p.ph = "right" -> LuCallsBefore(a, p.k) + 3 * LuKb(a, p.k) + 1
      [] p.ph = "gemm" -> LuCallsBefore(a, p.k) + 3 * LuKb(a, p.k) + 2
      [] OTHER -> LuCallsBefore(a, ((LuMin(a) + a.ib - 1) \div a.ib) * a.ib)

(* C22: every rank of coreblas_zgetrf calls coreblas_barrier_wait the     *)
(* same number of times, 3*kb + 3 for each block of width kb, whatever its *)
(* rank, the matrix and *info; with all size ranks running, none stays     *)
(* blocked at a barrier and every rank returns.                            *)
C22_BarrierCalls ==
    /\ [](LuRunning =>
            \A r \in LuRanks(lu.args) :
              lu.calls[r] = LuCallsAt(lu.args, luat[r]))
    /\ <>LuAllDone

(* two ranks returned after two blocks of a singular matrix *)
C22_Witness ==
    /\ LuAllDone /\ lu.args.size = 2 /\ lu.info # 0
    /\ lu.args.ib = 2 /\ LuMin(lu.args) = 3
    /\ lu.calls[0] = 3 * 2 + 3 + 3 * 1 + 3
    /\ lu.calls[1] = lu.calls[0]

(* columns the reduction has dealt with *)
LuReduced == {j \in DOMAIN lu.chosen : lu.chosen[j] # -1}

(* C23: with *info = 0 on entry, coreblas_zgetrf writes *info at most     *)
(* once: it stays 0 while every column had a nonzero pivot candidate and   *)
(* becomes j+1 for the first column j whose largest candidate is exactly   *)
(* zero; later columns and blocks do not change it.                        *)
C23_InfoFirstZeroColumn ==
    LuRunning =>
      /\ Len(lu.infoW) <= 1
      /\ lu.zero \subseteq LuReduced
      /\ IF lu.zero = {}
         THEN lu.info = 0 /\ lu.infoW = << >>
         ELSE /\ lu.info = 1 + CHOOSE j \in lu.zero : \A i \in lu.zero : j <= i
              /\ lu.infoW = <<lu.info>>
      /\ \A c \in DOMAIN lu.A : lu.A[c][2] > 0

(* column 1 was the first with a zero pivot and column 2 had one as well *)
C23_Witness ==
    /\ LuAllDone /\ lu.args.size = 2
    /\ lu.zero = {1, 2}
    /\ lu.info = 2

(* first column of the block that holds column j *)
LuBlockOf(a, j) == (j \div a.ib) * a.ib

(* C24: ipiv[j] is stored relative to its block (jp - k + 1) and the      *)
(* block offset k is added exactly once, so that after coreblas_zgetrf     *)
(* returns ipiv[j], for every j below min(A.m, A.n), is the 1-based global *)
(* row of the pivot chosen for column j, with j+1 <= ipiv[j] <= A.m.       *)
C24_IpivGlobalRow ==
    LuRunning =>
      \A j \in LuReduced :
        /\ lu.chosen[j] \in lu.colmax[j]
        /\ lu.adj[j] \in {0, 1}
        /\ lu.ipiv[j] = lu.chosen[j] + 1
                          - (1 - lu.adj[j]) * LuBlockOf(lu.args, j)
        /\ LuAllDone =>
             /\ LuReduced = 0..(LuMin(lu.args) - 1)
             /\ lu.adj[j] = 1
             /\ lu.ipiv[j] = lu.chosen[j] + 1
             /\ j + 1 <= lu.ipiv[j] /\ lu.ipiv[j] <= lu.args.m

(* a column of a later block took its pivot from a lower tile *)
C24_Witness ==
    /\ LuAllDone /\ lu.args.size = 2 /\ lu.info = 0
    /\ \E j \in DOMAIN lu.ipiv :
         /\ LuBlockOf(lu.args, j) > 0
         /\ lu.ipiv[j] > lu.args.mb
         /\ lu.ipiv[j] = lu.args.m

(* C25: the final left pivoting of coreblas_zgetrf is shared by the       *)
(* ranks: with size >= 2 and at least two blocks k = ib, 2*ib, ... below   *)
(* min(A.m, A.n), some rank other than rank 0 swaps rows, and every block  *)
(* is swapped by exactly one rank.                                         *)
C25_LeftByAllRanks ==
    LuAllDone /\ lu.args.size >= 2
      /\ Cardinality(LuLeftBlocks(lu.args)) >= 2 =>
        /\ \E k \in LuLeftBlocks(lu.args) : lu.leftBy[k] \ {0} # {}
        /\ \A k \in LuLeftBlocks(lu.args) : Cardinality(lu.leftBy[k]) = 1

====
